---- MODULE Spec2Model ----
(***************************************************************************)
(* Allocation & rebalancing engine of prismo                               *)
(* (src/app/services/allocation_service.py).                               *)
(*                                                                         *)
(* Money amounts and percentages are Python floats in the source.  Here    *)
(* they are exact rationals <<numerator, denominator>> in lowest terms     *)
(* with a positive denominator, so that equalities such as "capped at      *)
(* exactly the cap amount" are decided by the arithmetic and not by        *)
(* rounding.                                                               *)
(***************************************************************************)
EXTENDS Integers, Sequences, FiniteSets, TLC

VARIABLES
    positions,               \* the list of position dicts the allocator works on
    portfolio_target_value,  \* argument of _apply_type_constraints_recursive
    max_stock_pct,           \* argument
    max_etf_pct,             \* argument
    max_crypto_pct,          \* argument
    iteration,               \* argument of the current invocation
    max_iterations,          \* argument
    pc,                      \* "running" while an invocation is due, else "returned"
    outcome,                 \* how the call returned
    run,                     \* 1 for the first call, 2 for the call on its own output
    first_result,            \* what the first call returned
    portfolio_map,           \* the portfolio tree the service calls are given
    portfolio_builder_data,  \* builder configuration per portfolio name
    target_allocations,      \* list of the configured portfolio allocations
    total_current_value,     \* argument of the last service call
    rules,                   \* argument of the last service call
    portfolios,              \* what the last service call returned
    last_call,               \* which service method was called last
    calls,                   \* number of service calls made on portfolio_map
    portfolio_data,          \* the holding rows given to get_portfolio_positions
    raised,                  \* the exception the last service call raised, if any
    investment_amount,       \* argument of calculate_rebalancing
    mode,                    \* argument of calculate_rebalancing
    recommendations,         \* what calculate_rebalancing returned
    validated_allocations,   \* argument of validate_allocations
    max_stock_percentage,    \* self.rules.max_stock_percentage of the service
    validation,              \* what validate_allocations returned
    db_version,              \* number of writes committed to the account's data
    cached,                  \* the memoized entry: <<>> or <<version computed from>>
    readers,                 \* per request for the simulator data: its progress
    writer,                  \* the handler that committed and has not returned
    completed_version        \* number of writes whose handler has returned

allocator_vars == <<positions, portfolio_target_value, max_stock_pct, max_etf_pct,
                    max_crypto_pct, iteration, max_iterations, pc, outcome, run,
                    first_result>>

service_vars == <<portfolio_map, portfolio_builder_data, target_allocations,
                  total_current_value, rules, portfolios, last_call, calls,
                  portfolio_data, raised>>

rebalancing_vars == <<investment_amount, mode, recommendations>>

validation_vars == <<validated_allocations, max_stock_percentage, validation>>

cache_vars == <<db_version, cached, readers, writer, completed_version>>

vars == <<allocator_vars, service_vars, rebalancing_vars, validation_vars, cache_vars>>

(***************************************************************************)
(* Bounds of the model.                                                    *)
(***************************************************************************)
\* the longest list of positions handed to the allocator
MaxPositions == 3
\* the most holdings in the portfolio tree
MaxHoldings == 2
\* the most service calls made on one portfolio tree
MaxCalls == 2
\* the most holding rows given to get_portfolio_positions
MaxRows == 2
\* a max_iterations argument small enough for the ceiling to be reached
LowMaxIterations == 2

\* AllocationRule.max_stock_percentage
DefaultRuleMaxStock == <<5, 1>>

\* default of the max_iterations parameter
DefaultMaxIterations == 100

(***************************************************************************)
(* Exact arithmetic standing for the float operators + - * / <= > sum().   *)
(***************************************************************************)
Abs(n) == IF n < 0 THEN -n ELSE n

RECURSIVE GCD(_, _)
GCD(a, b) == IF b = 0 THEN a ELSE GCD(b, a % b)

Norm(n, d) ==
    LET g == GCD(Abs(n), Abs(d))
        s == IF d < 0 THEN -1 ELSE 1
    IN  <<(s * n) \div g, (s * d) \div g>>

R(n) == <<n, 1>>
Zero == R(0)
Hundred == R(100)

RAdd(a, b) == Norm(a[1] * b[2] + b[1] * a[2], a[2] * b[2])
RSub(a, b) == Norm(a[1] * b[2] - b[1] * a[2], a[2] * b[2])
RMul(a, b) == Norm(a[1] * b[1], a[2] * b[2])
\* a / b; the callers guard b # 0 exactly where the source does
RDiv(a, b) == Norm(a[1] * b[2], a[2] * b[1])
RLeq(a, b) == a[1] * b[2] <= b[1] * a[2]
RGt(a, b) == a[1] * b[2] > b[1] * a[2]

\* sum(f(x) for x in seq), over a sequence of rationals
RECURSIVE RSum(_)
RSum(s) == IF s = <<>> THEN Zero ELSE RAdd(s[1], RSum(Tail(s)))

\* the indices of a list, in order
Indices(s) == 1..Len(s)

(***************************************************************************)
(* A position dict.  Keys that may be missing from the dict are modelled   *)
(* by a flag: has_meta says whether the capping keys is_capped,            *)
(* unconstrained_target_value, constrained_target_value and                *)
(* applicable_rule are present (the source always sets them together).     *)
(***************************************************************************)
NoneValue == "None"

Position(name, investment_type, targetValue) ==
    [name |-> name,
     investment_type |-> investment_type,
     targetValue |-> targetValue,
     has_meta |-> FALSE,
     is_capped |-> FALSE,
     unconstrained_target_value |-> Zero,
     constrained_target_value |-> Zero,
     applicable_rule |-> NoneValue]

\* pos.get('is_capped', False)
IsCapped(pos) == pos.has_meta /\ pos.is_capped

(***************************************************************************)
(* _apply_type_constraints_recursive, one invocation (one recursion        *)
(* level), split at the places where the source returns or recurses.       *)
(***************************************************************************)
\* the loop of the zero-or-negative-value exit
ZeroValuePositions(ps) ==
    [i \in Indices(ps) |->
        [ps[i] EXCEPT !.has_meta = TRUE,
                      !.unconstrained_target_value = ps[i].targetValue,
                      !.constrained_target_value = Zero,
                      !.is_capped = TRUE,
                      !.applicable_rule = "zero_portfolio_value"]]

\* mutant: the constrained value starts at 0 instead of the target value
InitMetadataZeroConstrained(ps, it) ==
    IF it = 0
    THEN [i \in Indices(ps) |->
            [ps[i] EXCEPT !.has_meta = TRUE,
                          !.unconstrained_target_value = ps[i].targetValue,
                          !.constrained_target_value = Zero,
                          !.is_capped = FALSE,
                          !.applicable_rule = NoneValue]]
    ELSE ps

\* the metadata initialisation of the first invocation
InitMetadata(ps, it) ==
    IF it = 0
    THEN [i \in Indices(ps) |->
            [ps[i] EXCEPT !.has_meta = TRUE,
                          !.unconstrained_target_value = ps[i].targetValue,
                          !.constrained_target_value = ps[i].targetValue,
                          !.is_capped = FALSE,
                          !.applicable_rule = NoneValue]]
    ELSE ps

CappedIdx(ps) == {i \in Indices(ps) : IsCapped(ps[i])}
UncappedIdx(ps) == {i \in Indices(ps) : ~IsCapped(ps[i])}

\* sum(pos['constrained_target_value'] for pos in capped_positions)
CappedValue(ps) ==
    RSum([i \in Indices(ps) |->
            IF IsCapped(ps[i]) THEN ps[i].constrained_target_value ELSE Zero])

\* mutant: the capped positions' value is not taken off the portfolio value
AvailableValueIgnoringCapped(ps, ptv) == ptv

AvailableValue(ps, ptv) == RSub(ptv, CappedValue(ps))

KnownTypes == {"Stock", "ETF", "Crypto"}

\* the cap percent chosen by investment_type
CapPct(investment_type, caps) ==
    CASE investment_type = "Stock" -> caps.stock
      [] investment_type = "ETF" -> caps.etf
      [] investment_type = "Crypto" -> caps.crypto

CapRule(investment_type) ==
    CASE investment_type = "Stock" -> "maxPerStock"
      [] investment_type = "ETF" -> "maxPerETF"
      [] investment_type = "Crypto" -> "maxPerCrypto"

\* mutant: the share is left a fraction, not scaled to percent
TargetPctAsFraction(pos, ptv) == RDiv(pos.constrained_target_value, ptv)

\* mutant: the percent is taken of the original value, not the current one
TargetPctOfOriginal(pos, ptv) ==
    RMul(RDiv(pos.unconstrained_target_value, ptv), Hundred)

\* target_pct = (constrained_target_value / portfolio_target_value) * 100
TargetPct(pos, ptv) == RMul(RDiv(pos.constrained_target_value, ptv), Hundred)

\* mutant: a position exactly at its cap counts as exceeding it
ExceedsCapInclusive(target_pct, cap_pct) == ~RGt(cap_pct, target_pct)

\* target_pct > cap_pct
ExceedsCap(target_pct, cap_pct) == RGt(target_pct, cap_pct)

\* mutant: the cap percent is used as a factor
CapAmountNoPercent(cap_pct, ptv) == RMul(cap_pct, ptv)

\* capped_value = (cap_pct / 100) * portfolio_target_value
CapAmount(cap_pct, ptv) == RMul(RDiv(cap_pct, Hundred), ptv)

\* mutant: a position of unknown type is marked capped but keeps its value
CapOneKeepsUnknownValue(pos, ptv, caps) ==
    IF pos.investment_type \notin KnownTypes
    THEN [pos EXCEPT !.is_capped = TRUE,
                     !.applicable_rule = "unknown_type"]
    ELSE IF ExceedsCap(TargetPct(pos, ptv), CapPct(pos.investment_type, caps))
    THEN [pos EXCEPT !.is_capped = TRUE,
                     !.constrained_target_value =
                         CapAmount(CapPct(pos.investment_type, caps), ptv),
                     !.applicable_rule = CapRule(pos.investment_type)]
    ELSE pos

\* the body of the loop over uncapped_positions, for one position
CapOne(pos, ptv, caps) ==
    IF pos.investment_type \notin KnownTypes
    THEN [pos EXCEPT !.is_capped = TRUE,
                     !.constrained_target_value = Zero,
                     !.applicable_rule = "unknown_type"]
    ELSE IF ExceedsCap(TargetPct(pos, ptv), CapPct(pos.investment_type, caps))
    THEN [pos EXCEPT !.is_capped = TRUE,
                     !.constrained_target_value =
                         CapAmount(CapPct(pos.investment_type, caps), ptv),
                     !.applicable_rule = CapRule(pos.investment_type)]
    ELSE pos

\* the loop over uncapped_positions
CapLoop(ps, ptv, caps) ==
    [i \in Indices(ps) |->
        IF IsCapped(ps[i]) THEN ps[i] ELSE CapOne(ps[i], ptv, caps)]

\* any_capped_this_iteration
\* mutant: every pass counts as having capped something
AnyCappedAlways(before, after) == TRUE

AnyCappedThisIteration(before, after) ==
    \E i \in Indices(before) : ~IsCapped(before[i]) /\ IsCapped(after[i])

\* sum(pos['unconstrained_target_value'] for pos in new_uncapped_positions)
TotalUncappedWeight(ps) ==
    RSum([i \in Indices(ps) |->
            IF IsCapped(ps[i]) THEN Zero ELSE ps[i].unconstrained_target_value])

\* mutant: a still-uncapped position is set back to its original value
RedistributedValueOriginal(pos, total_uncapped_weight, new_available_value, n_uncapped) ==
    pos.unconstrained_target_value

\* mutant: the share is taken of the current value, not of the original one
RedistributedValueOfCurrent(pos, total_uncapped_weight, new_available_value, n_uncapped) ==
    IF RGt(total_uncapped_weight, Zero)
    THEN RMul(RDiv(pos.constrained_target_value, total_uncapped_weight),
              new_available_value)
    ELSE RDiv(new_available_value, R(n_uncapped))

\* the new constrained value of one still-uncapped position
RedistributedValue(pos, total_uncapped_weight, new_available_value, n_uncapped) ==
    IF RGt(total_uncapped_weight, Zero)
    THEN RMul(RDiv(pos.unconstrained_target_value, total_uncapped_weight),
              new_available_value)
    ELSE RDiv(new_available_value, R(n_uncapped))

\* mutant: the redistribution also rewrites the capped positions
RedistributeAll(ps, ptv) ==
    LET new_available_value == AvailableValue(ps, ptv)
        total_uncapped_weight == TotalUncappedWeight(ps)
        n == Cardinality(UncappedIdx(ps))
    IN  IF UncappedIdx(ps) # {} /\ RGt(new_available_value, Zero)
        THEN [i \in Indices(ps) |->
                [ps[i] EXCEPT !.constrained_target_value =
                    RedistributedValue(ps[i], total_uncapped_weight,
                                       new_available_value, n)]]
        ELSE ps

\* the redistribution block after the capping loop
Redistribute(ps, ptv) ==
    LET new_available_value == AvailableValue(ps, ptv)
        total_uncapped_weight == TotalUncappedWeight(ps)
        n == Cardinality(UncappedIdx(ps))
    IN  IF UncappedIdx(ps) # {} /\ RGt(new_available_value, Zero)
        THEN [i \in Indices(ps) |->
                IF IsCapped(ps[i]) THEN ps[i]
                ELSE [ps[i] EXCEPT !.constrained_target_value =
                        RedistributedValue(ps[i], total_uncapped_weight,
                                           new_available_value, n)]]
        ELSE ps

\* How one invocation ends: "recurse" means it calls itself with
\* iteration + 1, every other outcome is a return.
Outcome(ps, ptv, caps, it, maxit) ==
    IF it >= maxit THEN "max_iterations"
    ELSE IF RLeq(ptv, Zero) THEN "zero_portfolio_value"
    ELSE LET ps1 == InitMetadata(ps, it)
         IN  IF UncappedIdx(ps1) = {} THEN "all_capped"
             ELSE IF RLeq(AvailableValue(ps1, ptv), Zero) THEN "no_available_value"
             ELSE IF AnyCappedThisIteration(ps1, CapLoop(ps1, ptv, caps))
             THEN "recurse"
             ELSE "converged"

\* The positions one invocation leaves, given how it ends.
ResultPositions(ps, ptv, caps, it, how) ==
    CASE how = "max_iterations" -> ps
      [] how = "zero_portfolio_value" -> ZeroValuePositions(ps)
      [] how \in {"all_capped", "no_available_value"} -> InitMetadata(ps, it)
      [] how = "converged" -> CapLoop(InitMetadata(ps, it), ptv, caps)
      [] how = "recurse" ->
            Redistribute(CapLoop(InitMetadata(ps, it), ptv, caps), ptv)

Invocation(ps, ptv, caps, it, maxit) ==
    LET how == Outcome(ps, ptv, caps, it, maxit)
    IN  [positions |-> ResultPositions(ps, ptv, caps, it, how), outcome |-> how]

\* the whole call: the recursion unrolled
RECURSIVE ApplyTypeConstraints(_, _, _, _, _)
ApplyTypeConstraints(ps, ptv, caps, it, maxit) ==
    LET r == Invocation(ps, ptv, caps, it, maxit)
    IN  IF r.outcome = "recurse"
        THEN ApplyTypeConstraints(r.positions, ptv, caps, it + 1, maxit)
        ELSE r

(***************************************************************************)
(* AllocationService.calculate_allocation_targets and                      *)
(* calculate_allocation_targets_with_type_constraints.                     *)
(*                                                                         *)
(* portfolio_map is the list of the dict's values in insertion order; a    *)
(* portfolio holds the list of its sectors, a sector the list of its       *)
(* positions.  The position dicts of the returned portfolios are the very  *)
(* dicts of portfolio_map, so what the calls write into them shows in      *)
(* both.                                                                   *)
(***************************************************************************)
\* None where a number is expected
NoneNumber == <<>>

\* d.get('weight'): None when the key is absent
WeightGet(d) == IF "weight" \in DOMAIN d THEN d.weight ELSE NoneNumber

\* d.get('weight', 0): 0 when the key is absent, None when it holds None
WeightGetOrZero(d) == IF "weight" \in DOMAIN d THEN d.weight ELSE Zero

\* truth value of an optional number
Truthy(x) == x # NoneNumber /\ x # Zero

\* a position dict as get_portfolio_positions builds it
HoldingPosition(name, identifier, investment_type, currentValue, targetAllocation) ==
    [name |-> name,
     identifier |-> identifier,
     investment_type |-> investment_type,
     isPlaceholder |-> FALSE,
     currentValue |-> currentValue,
     targetAllocation |-> targetAllocation,
     has_targetValue |-> FALSE,
     targetValue |-> Zero,
     has_meta |-> FALSE,
     is_capped |-> FALSE,
     unconstrained_target_value |-> Zero,
     constrained_target_value |-> Zero,
     applicable_rule |-> NoneValue]

\* f'Position Slot {i+1} (Unfilled)'
SlotNames ==
    <<"Position Slot 1 (Unfilled)", "Position Slot 2 (Unfilled)",
      "Position Slot 3 (Unfilled)", "Position Slot 4 (Unfilled)",
      "Position Slot 5 (Unfilled)", "Position Slot 6 (Unfilled)">>

\* one dict of the 'Missing Positions' sector
PlaceholderPosition(i, weight) ==
    [name |-> SlotNames[i],
     identifier |-> NoneValue,
     investment_type |-> NoneValue,
     isPlaceholder |-> TRUE,
     currentValue |-> Zero,
     targetAllocation |-> weight,
     has_targetValue |-> FALSE,
     targetValue |-> Zero,
     has_meta |-> FALSE,
     is_capped |-> FALSE,
     unconstrained_target_value |-> Zero,
     constrained_target_value |-> Zero,
     applicable_rule |-> NoneValue]

\* portfolio_target_weight: the allocation of the first entry of
\* target_allocations that has the portfolio's name, 0 when there is none
PortfolioTargetWeight(targets, portfolio_name) ==
    LET hits == {i \in Indices(targets) : targets[i].name = portfolio_name}
    IN  IF hits = {} THEN Zero
        ELSE LET target_portfolio == targets[CHOOSE i \in hits : \A j \in hits : i <= j]
             IN  IF "allocation" \in DOMAIN target_portfolio
                 THEN target_portfolio.allocation
                 ELSE Zero

\* portfolio_builder_data.get(portfolio_name, {}) with the defaults its
\* readers give the absent keys; a dict without 'desiredPositions' is a
\* record without that field
BuilderData(builder, portfolio_name) ==
    IF portfolio_name \in DOMAIN builder
    THEN builder[portfolio_name]
    ELSE [minPositions |-> 0, positions |-> <<>>]

\* mutant: the calculated minimum is used although a desired count is set
EffectivePositionsMinOnly(builder_data) == builder_data.minPositions

\* effective_positions
EffectivePositions(builder_data) ==
    IF "desiredPositions" \in DOMAIN builder_data
    THEN builder_data.desiredPositions
    ELSE builder_data.minPositions

\* current_positions_count
RECURSIVE CountPositions(_)
CountPositions(sectors) ==
    IF sectors = <<>> THEN 0
    ELSE Len(sectors[1].positions) + CountPositions(Tail(sectors))

\* round(), of a rational: to the nearest integer, ties to even
Round(r) ==
    LET q == (2 * r[1] + r[2]) \div (2 * r[2])
        tie == (2 * r[1] + r[2]) % (2 * r[2]) = 0
    IN  IF tie /\ q % 2 = 1 THEN q - 1 ELSE q

\* total_real_weight
TotalRealWeight(builder_positions) ==
    RSum([i \in Indices(builder_positions) |->
            IF builder_positions[i].isPlaceholder THEN Zero
            ELSE WeightGetOrZero(builder_positions[i])])

\* the sectors of the 'Missing Positions' block: none or one
MissingPositionsSectors(builder_data, current_positions_count) ==
    LET builder_positions == builder_data.positions
        holders == {i \in Indices(builder_positions) :
                        builder_positions[i].isPlaceholder}
        effective_positions == EffectivePositions(builder_data)
        positions_remaining == effective_positions - current_positions_count
    IN  IF /\ holders # {}
           /\ current_positions_count < effective_positions
           /\ ~(Round(TotalRealWeight(builder_positions)) >= 100)
        THEN LET placeholder_position ==
                     builder_positions[CHOOSE i \in holders :
                                           \A j \in holders : i <= j]
             IN  <<[name |-> "Missing Positions",
                    positions |-> [i \in 1..positions_remaining |->
                        PlaceholderPosition(i, WeightGetOrZero(placeholder_position))],
                    currentValue |-> Zero,
                    positionCount |-> positions_remaining,
                    isPlaceholder |-> TRUE]>>
        ELSE <<>>

\* sum() at line 683 meets a None: TypeError
SumRaises(builder_data) ==
    \E i \in Indices(builder_data.positions) :
        /\ ~builder_data.positions[i].isPlaceholder
        /\ WeightGetOrZero(builder_data.positions[i]) = NoneNumber

\* the division at line 722 meets the None weight of a placeholder: TypeError
PlaceholderRaises(builder_data, current_positions_count) ==
    /\ ~SumRaises(builder_data)
    /\ MissingPositionsSectors(builder_data, current_positions_count) # <<>>
    /\ \E i \in Indices(builder_data.positions) :
          /\ builder_data.positions[i].isPlaceholder
          /\ \A j \in 1..(i - 1) : ~builder_data.positions[j].isPlaceholder
          /\ WeightGetOrZero(builder_data.positions[i]) = NoneNumber

\* a sector_entry of a real sector
SectorEntry(sector_data) ==
    [name |-> sector_data.name,
     positions |-> sector_data.positions,
     currentValue |-> sector_data.currentValue,
     positionCount |-> Len(sector_data.positions),
     isPlaceholder |-> FALSE]

\* portfolio_target_value = (portfolio_target_weight / 100) * total_current_value
PortfolioTargetValue(portfolio_target_weight, total) ==
    RMul(RDiv(portfolio_target_weight, Hundred), total)

\* sector_target_value / portfolio_target_value * 100, guarded
SectorTargetWeight(sector_target_value, ptv) ==
    IF RGt(ptv, Zero)
    THEN RMul(RDiv(sector_target_value, ptv), Hundred)
    ELSE Zero

\* mutant: the weight is taken as a fraction, not as a percentage
PosTargetValueNoPercent(targetAllocation, ptv) == RMul(targetAllocation, ptv)

\* pos_target_value = (pos['targetAllocation'] / 100) * portfolio_target_value
PosTargetValue(targetAllocation, ptv) == RMul(RDiv(targetAllocation, Hundred), ptv)

\* the loop that gives a sector's positions and the sector their target values
SectorWithTargets(sector, ptv) ==
    LET ps == [i \in Indices(sector.positions) |->
                 [sector.positions[i] EXCEPT
                     !.has_targetValue = TRUE,
                     !.targetValue =
                         PosTargetValue(sector.positions[i].targetAllocation, ptv)]]
        sector_target_value == RSum([i \in Indices(ps) |-> ps[i].targetValue])
    IN  [name |-> sector.name,
         positions |-> ps,
         currentValue |-> sector.currentValue,
         positionCount |-> sector.positionCount,
         isPlaceholder |-> sector.isPlaceholder,
         targetValue |-> sector_target_value,
         targetWeight |-> SectorTargetWeight(sector_target_value, ptv)]

\* the portfolio_entry built for one portfolio of portfolio_map
PortfolioEntry(pdata, builder, targets, total) ==
    LET portfolio_target_weight == PortfolioTargetWeight(targets, pdata.name)
        builder_data == BuilderData(builder, pdata.name)
        ptv == PortfolioTargetValue(portfolio_target_weight, total)
        sectors == [i \in Indices(pdata.sectors) |-> SectorEntry(pdata.sectors[i])]
                       \o MissingPositionsSectors(builder_data,
                                                  CountPositions(pdata.sectors))
    IN  [name |-> pdata.name,
         currentValue |-> pdata.currentValue,
         targetWeight |-> portfolio_target_weight,
         sectors |-> [i \in Indices(sectors) |-> SectorWithTargets(sectors[i], ptv)],
         minPositions |-> builder_data.minPositions,
         effectivePositions |-> EffectivePositions(builder_data),
         targetValue |-> ptv]

\* calculate_allocation_targets: the returned list
CalculateAllocationTargets(pmap, builder, targets, total) ==
    [i \in Indices(pmap) |-> PortfolioEntry(pmap[i], builder, targets, total)]

\* max_stock_pct, max_etf_pct, max_crypto_pct parsed from rules
DefaultMaxStockPct == 2
DefaultMaxEtfPct == 5
DefaultMaxCryptoPct == 5

\* rules is a dict: a function from the keys it has; rules.get(key, default)
ParseRules(rules_arg) ==
    [stock |-> IF "maxPerStock" \in DOMAIN rules_arg
               THEN rules_arg["maxPerStock"] ELSE R(DefaultMaxStockPct),
     etf |-> IF "maxPerETF" \in DOMAIN rules_arg
             THEN rules_arg["maxPerETF"] ELSE R(DefaultMaxEtfPct),
     crypto |-> IF "maxPerCrypto" \in DOMAIN rules_arg
                THEN rules_arg["maxPerCrypto"] ELSE R(DefaultMaxCryptoPct)]

\* all_positions, as the places (sector, index) of the dicts collected
RECURSIVE AllPositions(_, _)
AllPositions(sectors, s) ==
    IF s > Len(sectors) THEN <<>>
    ELSE (IF sectors[s].isPlaceholder THEN <<>>
          ELSE SelectSeq([i \in Indices(sectors[s].positions) |-> <<s, i>>],
                         LAMBDA a : ~sectors[s].positions[a[2]].isPlaceholder))
         \o AllPositions(sectors, s + 1)

PositionAt(sectors, a) == sectors[a[1]].positions[a[2]]

\* valid_positions
ValidPositions(sectors) ==
    SelectSeq(AllPositions(sectors, 1),
              LAMBDA a : /\ PositionAt(sectors, a).identifier # NoneValue
                         /\ PositionAt(sectors, a).investment_type # NoneValue)

\* skipped_positions
SkippedPositions(sectors) ==
    SelectSeq(AllPositions(sectors, 1),
              LAMBDA a : /\ PositionAt(sectors, a).identifier # NoneValue
                         /\ PositionAt(sectors, a).investment_type = NoneValue)

\* position_lookup[pos_name], as the index into all_positions_data of the
\* dict the name is bound to (the last one of that name), 0 when unbound
PositionLookup(all_positions_data, pos_name) ==
    LET hits == {k \in Indices(all_positions_data) :
                    all_positions_data[k].name = pos_name}
    IN  IF hits = {} THEN 0
        ELSE CHOOSE k \in hits : \A j \in hits : j <= k

\* the five assignments that copy the capping metadata onto a position
WithMetadata(position, augmented) ==
    [position EXCEPT
        !.has_meta = TRUE,
        !.is_capped = IsCapped(augmented),
        !.unconstrained_target_value =
            IF augmented.has_meta THEN augmented.unconstrained_target_value ELSE Zero,
        !.constrained_target_value =
            IF augmented.has_meta THEN augmented.constrained_target_value ELSE Zero,
        !.applicable_rule =
            IF augmented.has_meta THEN augmented.applicable_rule ELSE NoneValue,
        !.has_targetValue = TRUE,
        !.targetValue = augmented.constrained_target_value]

\* the sectors after the allocator has written into the valid positions'
\* dicts and the lookup loop has copied the metadata by name
UpdatedSectors(sectors, valid_positions, all_positions_data) ==
    LET written(s, i) ==
            IF \E k \in Indices(valid_positions) : valid_positions[k] = <<s, i>>
            THEN all_positions_data[CHOOSE k \in Indices(valid_positions) :
                                        valid_positions[k] = <<s, i>>]
            ELSE sectors[s].positions[i]
        looked(s, i) ==
            LET k == PositionLookup(all_positions_data, written(s, i).name)
            IN  IF sectors[s].isPlaceholder \/ k = 0
                THEN written(s, i)
                ELSE WithMetadata(written(s, i), all_positions_data[k])
    IN  [s \in Indices(sectors) |->
            [sectors[s] EXCEPT
                !.positions = [i \in Indices(sectors[s].positions) |-> looked(s, i)]]]

\* mutant: the sectors keep their unconstrained target value and weight
RecalculatedSectorKept(sector, ptv) == sector

\* the recalculation of a sector's target value and weight
RecalculatedSector(sector, ptv) ==
    IF sector.isPlaceholder THEN sector
    ELSE LET sector_target_value ==
                 RSum([i \in Indices(sector.positions) |->
                         IF sector.positions[i].has_targetValue
                         THEN sector.positions[i].targetValue ELSE Zero])
         IN  [sector EXCEPT
                 !.targetValue = sector_target_value,
                 !.targetWeight = SectorTargetWeight(sector_target_value, ptv)]

\* the body of 'for portfolio in portfolios'
ConstrainedPortfolio(portfolio, caps) ==
    LET ptv == portfolio.targetValue
        valid_positions == ValidPositions(portfolio.sectors)
    IN  IF ptv = Zero THEN portfolio
        ELSE IF valid_positions = <<>> THEN portfolio
        ELSE LET all_positions_data ==
                     ApplyTypeConstraints(
                         [k \in Indices(valid_positions) |->
                             PositionAt(portfolio.sectors, valid_positions[k])],
                         ptv, caps, 0, DefaultMaxIterations).positions
                 updated == UpdatedSectors(portfolio.sectors, valid_positions,
                                           all_positions_data)
             IN  [portfolio EXCEPT
                     !.sectors = [s \in Indices(updated) |->
                                     RecalculatedSector(updated[s], ptv)]]

\* the call raises while it builds the entry of this portfolio
PortfolioRaises(pdata, builder) ==
    \/ SumRaises(BuilderData(builder, pdata.name))
    \/ PlaceholderRaises(BuilderData(builder, pdata.name),
                         CountPositions(pdata.sectors))

\* calculate_allocation_targets raises instead of returning
CalculateRaises(pmap, builder) ==
    \E p \in Indices(pmap) : PortfolioRaises(pmap[p], builder)

\* a portfolio of portfolio_map whose positions were given their targetValue
WithTargetValues(pdata, targets, total) ==
    LET ptv == PortfolioTargetValue(PortfolioTargetWeight(targets, pdata.name), total)
    IN  [pdata EXCEPT
            !.sectors = [s \in Indices(pdata.sectors) |->
                [pdata.sectors[s] EXCEPT
                    !.positions =
                        SectorWithTargets(SectorEntry(pdata.sectors[s]), ptv).positions]]]

\* portfolio_map as a raising call leaves it: the portfolios before the
\* raising one have their target values, and so has the raising one if it
\* got as far as its placeholder positions
MapAtRaise(pmap, builder, targets, total) ==
    LET k == CHOOSE p \in Indices(pmap) :
                /\ PortfolioRaises(pmap[p], builder)
                /\ \A q \in 1..(p - 1) : ~PortfolioRaises(pmap[q], builder)
    IN  [p \in Indices(pmap) |->
            IF \/ p < k
               \/ p = k /\ ~SumRaises(BuilderData(builder, pmap[p].name))
            THEN WithTargetValues(pmap[p], targets, total)
            ELSE pmap[p]]

\* calculate_allocation_targets_with_type_constraints: the returned list
CalculateAllocationTargetsWithTypeConstraints(pmap, builder, targets, total, rules_arg) ==
    LET result_portfolios == CalculateAllocationTargets(pmap, builder, targets, total)
    IN  [p \in Indices(result_portfolios) |->
            ConstrainedPortfolio(result_portfolios[p], ParseRules(rules_arg))]

(***************************************************************************)
(* AllocationService.get_portfolio_positions.                              *)
(*                                                                         *)
(* A row of portfolio_data is a record; its field value is what            *)
(* calculate_item_value gives for the row.  A dict key that may be absent  *)
(* is a record field that may be absent.                                   *)
(***************************************************************************)
\* portfolio.get('positions', [])
ConfigPositions(portfolio) ==
    IF "positions" \in DOMAIN portfolio THEN portfolio.positions ELSE <<>>

\* default_stock_weight, default_etf_weight, default_crypto_weight
DefaultWeights(rules_arg) ==
    [stock |-> IF "maxPerStock" \in DOMAIN rules_arg
               THEN rules_arg["maxPerStock"] ELSE R(DefaultMaxStockPct),
     etf |-> IF "maxPerETF" \in DOMAIN rules_arg
             THEN rules_arg["maxPerETF"] ELSE R(DefaultMaxEtfPct),
     crypto |-> IF "maxPerCrypto" \in DOMAIN rules_arg
                THEN rules_arg["maxPerCrypto"] ELSE R(DefaultMaxCryptoPct)]

\* company_investment_types.get(company_name): the type of the last row that
\* has the name
CompanyInvestmentType(rows, company_name) ==
    LET hits == {i \in Indices(rows) : rows[i].company_name = company_name}
    IN  IF company_name = NoneValue \/ hits = {} THEN NoneValue
        ELSE rows[CHOOSE i \in hits : \A j \in hits : j <= i].investment_type

\* the default weight of an investment type
TypeDefaultWeight(investment_type, defaults) ==
    CASE investment_type = "Stock" -> defaults.stock
      [] investment_type = "ETF" -> defaults.etf
      [] investment_type = "Crypto" -> defaults.crypto
      [] OTHER -> Zero

\* get_default_weight(company_name)
GetDefaultWeight(rows, company_name, defaults) ==
    TypeDefaultWeight(CompanyInvestmentType(rows, company_name), defaults)

\* the entries of target_allocations that have a name
NamedConfigs(targets) == SelectSeq(targets, LAMBDA c : c.name # NoneValue)

\* the configured real positions, each with its portfolio's name, in the
\* order in which the loop stores their weights
RECURSIVE ConfiguredPositions(_)
ConfiguredPositions(configs) ==
    IF configs = <<>> THEN <<>>
    ELSE LET real == SelectSeq(ConfigPositions(configs[1]),
                               LAMBDA q : ~q.isPlaceholder)
         IN  [i \in Indices(real) |-> <<configs[1].name, real[i]>>]
             \o ConfiguredPositions(Tail(configs))

\* position_target_weights.get((pname, company_name), 0)
PositionTargetWeight(targets, rows, defaults, pname, company_name) ==
    LET stored == ConfiguredPositions(NamedConfigs(targets))
        hits == {i \in Indices(stored) :
                    /\ stored[i][1] = pname
                    /\ stored[i][2].companyName = company_name}
    IN  IF hits = {} THEN Zero
        ELSE LET explicit_weight ==
                     WeightGet(stored[CHOOSE i \in hits : \A j \in hits : j <= i][2])
             IN  IF explicit_weight # NoneNumber /\ RGt(explicit_weight, Zero)
                 THEN explicit_weight
                 ELSE GetDefaultWeight(rows, company_name, defaults)

\* mutant: one placeholder is enough, real positions or not
HasSomePlaceholder(portfolio) ==
    \E i \in Indices(ConfigPositions(portfolio)) :
        ConfigPositions(portfolio)[i].isPlaceholder

\* has_only_placeholders
HasOnlyPlaceholders(portfolio) ==
    /\ \A i \in Indices(ConfigPositions(portfolio)) :
          ConfigPositions(portfolio)[i].isPlaceholder
    /\ ConfigPositions(portfolio) # <<>>

\* placeholder_weight
PlaceholderWeight(portfolio) ==
    IF HasOnlyPlaceholders(portfolio)
    THEN WeightGet(ConfigPositions(portfolio)[1])
    ELSE NoneNumber

\* portfolio_builder_data[portfolio_name] as one entry of target_allocations
\* leaves it
BuilderEntry(portfolio) ==
    LET base == [minPositions |-> IF "minPositions" \in DOMAIN portfolio
                                  THEN portfolio.minPositions ELSE 0,
                 allocation |-> IF "allocation" \in DOMAIN portfolio
                                THEN portfolio.allocation ELSE Zero,
                 positions |-> ConfigPositions(portfolio),
                 name |-> portfolio.name]
        desired == IF "desiredPositions" \in DOMAIN portfolio
                   THEN [desiredPositions |-> portfolio.desiredPositions]
                   ELSE <<>>
        equal == IF Truthy(PlaceholderWeight(portfolio))
                 THEN [use_placeholder_weight |-> TRUE,
                       placeholder_weight |-> PlaceholderWeight(portfolio)]
                 ELSE <<>>
    IN  [k \in DOMAIN base \cup DOMAIN desired \cup DOMAIN equal |->
            IF k \in DOMAIN equal THEN equal[k]
            ELSE IF k \in DOMAIN desired THEN desired[k]
            ELSE base[k]]

\* portfolio_builder_data: keyed by name, a later entry replacing an earlier
BuilderDataOf(targets) ==
    LET configs == NamedConfigs(targets)
    IN  [n \in {configs[i].name : i \in Indices(configs)} |->
            BuilderEntry(configs[CHOOSE i \in Indices(configs) :
                            /\ configs[i].name = n
                            /\ \A j \in Indices(configs) :
                                  configs[j].name = n => j <= i])]

\* target_weight of a row
RowTargetWeight(row, rows, targets, defaults) ==
    LET target_weight ==
            PositionTargetWeight(targets, rows, defaults,
                                 row.portfolio_name, row.company_name)
        builder_config == BuilderData(BuilderDataOf(targets), row.portfolio_name)
        use_placeholder_weight == "use_placeholder_weight" \in DOMAIN builder_config
    IN  IF target_weight = Zero
        THEN IF use_placeholder_weight /\ Truthy(builder_config.placeholder_weight)
             THEN builder_config.placeholder_weight
             ELSE IF row.investment_type \in {"Stock", "ETF", "Crypto"}
             THEN TypeDefaultWeight(row.investment_type, defaults)
             ELSE target_weight
        ELSE target_weight

\* position_data
RowPosition(row, rows, targets, defaults) ==
    HoldingPosition(row.company_name, row.identifier, row.investment_type,
                    row.value, RowTargetWeight(row, rows, targets, defaults))

\* the index in a list of dicts of the one stored under a key, 0 if none
IndexOf(seq, key, value) ==
    LET hits == {i \in Indices(seq) : seq[i][key] = value}
    IN  IF hits = {} THEN 0 ELSE CHOOSE i \in hits : TRUE

\* row['sector'] if row['sector'] else 'Uncategorized'
SectorName(row) == IF row.sector # NoneValue THEN row.sector ELSE "Uncategorized"

\* mutant: the position's value is not added to its sector's currentValue
SectorsWithPositionOnly(sectors, sector_name, position) ==
    LET with == IF IndexOf(sectors, "name", sector_name) = 0
                THEN Append(sectors, [name |-> sector_name, positions |-> <<>>,
                                      currentValue |-> Zero])
                ELSE sectors
        c == IndexOf(with, "name", sector_name)
    IN  [with EXCEPT ![c] = [@ EXCEPT !.positions = Append(@, position)]]

\* the sectors of a portfolio after a row's position was added
SectorsWithPosition(sectors, sector_name, position) ==
    LET with == IF IndexOf(sectors, "name", sector_name) = 0
                THEN Append(sectors, [name |-> sector_name, positions |-> <<>>,
                                      currentValue |-> Zero])
                ELSE sectors
        c == IndexOf(with, "name", sector_name)
    IN  [with EXCEPT
            ![c] = [@ EXCEPT
                       !.currentValue = RAdd(@, position.currentValue),
                       !.positions = Append(@, position)]]

\* portfolio_map after one row of the loop
TreeWithRow(tree, row, position) ==
    LET with == IF IndexOf(tree, "id", row.portfolio_id) = 0
                THEN Append(tree, [id |-> row.portfolio_id,
                                   name |-> row.portfolio_name,
                                   sectors |-> <<>>,
                                   currentValue |-> Zero])
                ELSE tree
        p == IndexOf(with, "id", row.portfolio_id)
    IN  IF row.company_name = NoneValue THEN with
        ELSE [with EXCEPT
                 ![p] = [@ EXCEPT
                            !.currentValue = RAdd(@, position.currentValue),
                            !.sectors = SectorsWithPosition(@, SectorName(row),
                                                            position)]]

\* mutant: portfolio_map starts with an entry for every configured portfolio
RECURSIVE TreeOfRowsPreinitialised(_, _, _, _)
TreeOfRowsPreinitialised(rows, k, targets, defaults) ==
    IF k = 0
    THEN [i \in Indices(NamedConfigs(targets)) |->
            [id |-> 0, name |-> NamedConfigs(targets)[i].name,
             sectors |-> <<>>, currentValue |-> Zero]]
    ELSE TreeWithRow(TreeOfRowsPreinitialised(rows, k - 1, targets, defaults),
                     rows[k], RowPosition(rows[k], rows, targets, defaults))

\* portfolio_map after the first k rows
RECURSIVE TreeOfRows(_, _, _, _)
TreeOfRows(rows, k, targets, defaults) ==
    IF k = 0 THEN <<>>
    ELSE TreeWithRow(TreeOfRows(rows, k - 1, targets, defaults), rows[k],
                     RowPosition(rows[k], rows, targets, defaults))

\* get_portfolio_positions: the pair it returns
GetPortfolioPositions(rows, targets, rules_arg) ==
    [portfolio_map |-> TreeOfRows(rows, Len(rows), targets, DefaultWeights(rules_arg)),
     portfolio_builder_data |-> BuilderDataOf(targets)]

(***************************************************************************)
(* The allocator as a state machine: one step per invocation of            *)
(* _apply_type_constraints_recursive.                                      *)
(***************************************************************************)
PositionNames == <<"A", "B", "C", "D", "E">>
InvestmentTypes == {"Stock", "ETF", "Crypto", "Bond"}
TargetAllocations == {R(0), R(10), R(90)}
PortfolioTargetValues == {R(0), R(10000)}
CapChoices ==
    {[stock |-> R(50), etf |-> R(20), crypto |-> R(10)],
     [stock |-> R(60), etf |-> R(90), crypto |-> R(0)]}

PositionInputs ==
    UNION {[1..n -> InvestmentTypes \X TargetAllocations] : n \in 1..MaxPositions}

MakePositions(inp, ptv) ==
    [i \in DOMAIN inp |->
        Position(PositionNames[i], inp[i][1], PosTargetValue(inp[i][2], ptv))]

Caps == [stock |-> max_stock_pct, etf |-> max_etf_pct, crypto |-> max_crypto_pct]

\* validate_allocations has not been called, on a service with default rules
ValidationIdle ==
    /\ validated_allocations = <<>>
    /\ max_stock_percentage = DefaultRuleMaxStock
    /\ validation = <<>>

\* no request touches the memoized simulator data
CacheIdle ==
    /\ db_version = 0
    /\ cached = <<>>
    /\ readers = <<>>
    /\ writer = NoneValue
    /\ completed_version = 0

\* calculate_rebalancing has not been called
RebalancingIdle ==
    /\ investment_amount = Zero
    /\ mode = NoneValue
    /\ recommendations = <<>>

\* no service call is under way: the allocator is called directly
ServiceIdle ==
    /\ portfolio_map = <<>>
    /\ portfolio_builder_data = <<>>
    /\ target_allocations = <<>>
    /\ total_current_value = Zero
    /\ rules = <<>>
    /\ portfolios = <<>>
    /\ last_call = NoneValue
    /\ calls = 0
    /\ portfolio_data = <<>>
    /\ raised = NoneValue

Init ==
    /\ portfolio_target_value \in PortfolioTargetValues
    /\ \E inp \in PositionInputs :
          positions = MakePositions(inp, portfolio_target_value)
    /\ \E c \in CapChoices :
          /\ max_stock_pct = c.stock
          /\ max_etf_pct = c.etf
          /\ max_crypto_pct = c.crypto
    /\ max_iterations \in {LowMaxIterations, DefaultMaxIterations}
    /\ iteration = 0
    /\ pc = "running"
    /\ outcome = NoneValue
    /\ run = 1
    /\ first_result = <<>>
    /\ ServiceIdle
    /\ RebalancingIdle
    /\ ValidationIdle
    /\ CacheIdle

ThisOutcome ==
    Outcome(positions, portfolio_target_value, Caps, iteration, max_iterations)

ThisResult(how) ==
    ResultPositions(positions, portfolio_target_value, Caps, iteration, how)

\* what every return of the call leaves behind
Returns(how) ==
    /\ positions' = ThisResult(how)
    /\ pc' = "returned"
    /\ outcome' = how
    /\ UNCHANGED <<portfolio_target_value, max_stock_pct, max_etf_pct,
                   max_crypto_pct, iteration, max_iterations, run, first_result>>
    /\ UNCHANGED <<service_vars, rebalancing_vars, validation_vars, cache_vars>>

ReturnMaxIterations ==
    /\ pc = "running"
    /\ iteration >= max_iterations
    /\ ThisOutcome = "max_iterations"
    /\ Returns("max_iterations")

ReturnZeroValue ==
    /\ pc = "running"
    /\ iteration < max_iterations
    /\ RLeq(portfolio_target_value, Zero)
    /\ ThisOutcome = "zero_portfolio_value"
    /\ Returns("zero_portfolio_value")

ReturnAllCapped ==
    /\ pc = "running"
    /\ iteration < max_iterations
    /\ RGt(portfolio_target_value, Zero)
    /\ ThisOutcome = "all_capped"
    /\ Returns("all_capped")

ReturnNoAvailableValue ==
    /\ pc = "running"
    /\ iteration < max_iterations
    /\ RGt(portfolio_target_value, Zero)
    /\ ThisOutcome = "no_available_value"
    /\ Returns("no_available_value")

ReturnConverged ==
    /\ pc = "running"
    /\ iteration < max_iterations
    /\ RGt(portfolio_target_value, Zero)
    /\ ThisOutcome = "converged"
    /\ Returns("converged")

CapAndRecurse ==
    /\ pc = "running"
    /\ iteration < max_iterations
    /\ RGt(portfolio_target_value, Zero)
    /\ ThisOutcome = "recurse"
    /\ positions' = ThisResult("recurse")
    /\ iteration' = iteration + 1
    /\ UNCHANGED <<portfolio_target_value, max_stock_pct, max_etf_pct,
                   max_crypto_pct, max_iterations, pc, outcome, run, first_result>>
    /\ UNCHANGED <<service_vars, rebalancing_vars, validation_vars, cache_vars>>

\* The caller takes the returned constrained values as the new target values
\* and calls the allocator again with the same portfolio value and caps.
CallAgainOnOutput ==
    /\ pc = "returned"
    /\ run = 1
    /\ outcome # "max_iterations"
    /\ first_result' = positions
    /\ positions' = [i \in Indices(positions) |->
                        [positions[i] EXCEPT !.targetValue =
                            positions[i].constrained_target_value]]
    /\ iteration' = 0
    /\ pc' = "running"
    /\ outcome' = NoneValue
    /\ run' = 2
    /\ UNCHANGED <<portfolio_target_value, max_stock_pct, max_etf_pct,
                   max_crypto_pct, max_iterations>>
    /\ UNCHANGED <<service_vars, rebalancing_vars, validation_vars, cache_vars>>

Next ==
    \/ ReturnMaxIterations
    \/ ReturnZeroValue
    \/ ReturnAllCapped
    \/ ReturnNoAvailableValue
    \/ ReturnConverged
    \/ CapAndRecurse
    \/ CallAgainOnOutput

Spec == Init /\ [][Next]_vars

\* One invocation of the allocator: the function runs on once it is called.
AllocatorStep ==
    \/ ReturnMaxIterations
    \/ ReturnZeroValue
    \/ ReturnAllCapped
    \/ ReturnNoAvailableValue
    \/ ReturnConverged
    \/ CapAndRecurse

(***************************************************************************)
(* The service as a state machine: one step per call of                    *)
(* calculate_allocation_targets or                                         *)
(* calculate_allocation_targets_with_type_constraints on a portfolio tree  *)
(* as get_portfolio_positions builds it.                                   *)
(***************************************************************************)
HoldingNames == {"A", "B"}
HoldingKinds ==
    {<<"ID", "Stock">>, <<"ID", "ETF">>, <<"ID", NoneValue>>, <<NoneValue, "Stock">>}
HoldingWeights == {R(10), R(90)}
HoldingValue == R(1000)
TotalValues == {R(0), R(20000)}

HoldingInputs ==
    UNION {[1..n -> HoldingNames \X HoldingKinds \X HoldingWeights] :
              n \in 1..MaxHoldings}

MakeHolding(h) == HoldingPosition(h[1], h[2][1], h[2][2], HoldingValue, h[3])

\* a sector dict of portfolio_map
MakeSector(name, holdings) ==
    [name |-> name,
     positions |-> holdings,
     currentValue |-> RSum([i \in Indices(holdings) |-> holdings[i].currentValue])]

\* the holdings in one sector, or the last holding in a sector of its own
SectorSplits(holdings) ==
    {<<MakeSector("S1", holdings)>>} \cup
    (IF Len(holdings) < 2 THEN {}
     ELSE {<<MakeSector("S1", SubSeq(holdings, 1, Len(holdings) - 1)),
             MakeSector("S2", SubSeq(holdings, Len(holdings), Len(holdings)))>>})

\* a portfolio dict of portfolio_map
MakePortfolio(name, sectors) ==
    [name |-> name,
     sectors |-> sectors,
     currentValue |-> RSum([i \in Indices(sectors) |-> sectors[i].currentValue])]

BuilderChoices ==
    {<<>>,
     [n \in {"P1"} |->
        [minPositions |-> 3,
         positions |-> <<[isPlaceholder |-> FALSE, weight |-> R(40)],
                         [isPlaceholder |-> TRUE, weight |-> R(10)]>>]],
     [n \in {"P1"} |->
        [minPositions |-> 1,
         desiredPositions |-> 3,
         positions |-> <<[isPlaceholder |-> FALSE, weight |-> <<199, 2>>],
                         [isPlaceholder |-> TRUE, weight |-> R(10)]>>]],
     [n \in {"P1"} |->
        [minPositions |-> 3,
         desiredPositions |-> 2,
         positions |-> <<[isPlaceholder |-> FALSE, weight |-> R(99)],
                         [isPlaceholder |-> FALSE, weight |-> <<1, 4>>],
                         [isPlaceholder |-> TRUE, weight |-> R(5)],
                         [isPlaceholder |-> TRUE, weight |-> R(10)]>>]]}

TargetAllocationChoices ==
    {<<>>,
     <<[name |-> "P2", allocation |-> R(100)],
       [name |-> "P1", allocation |-> R(50)]>>}

RulesChoices ==
    {<<>>,
     [k \in {"maxPerStock", "maxPerETF", "maxPerCrypto"} |->
        CASE k = "maxPerStock" -> R(50)
          [] k = "maxPerETF" -> R(20)
          [] k = "maxPerCrypto" -> R(10)]}

InitService ==
    /\ \E inp \in HoldingInputs :
          \E sectors \in SectorSplits([i \in DOMAIN inp |-> MakeHolding(inp[i])]) :
             portfolio_map = <<MakePortfolio("P1", sectors)>>
    /\ portfolio_builder_data \in BuilderChoices
    /\ target_allocations \in TargetAllocationChoices
    /\ total_current_value = Zero
    /\ rules = <<>>
    /\ portfolios = <<>>
    /\ last_call = NoneValue
    /\ calls = 0
    /\ portfolio_data = <<>>
    /\ raised = NoneValue
    /\ RebalancingIdle
    /\ ValidationIdle
    /\ CacheIdle
    /\ positions = <<>>
    /\ portfolio_target_value = Zero
    /\ max_stock_pct = Zero
    /\ max_etf_pct = Zero
    /\ max_crypto_pct = Zero
    /\ iteration = 0
    /\ max_iterations = DefaultMaxIterations
    /\ pc = "returned"
    /\ outcome = NoneValue
    /\ run = 1
    /\ first_result = <<>>

\* portfolio_map after a call: its sectors' position lists are the lists the
\* returned sector entries hold, so the dicts in them are as the call left them
MapAfterCall(pmap, result) ==
    [p \in Indices(pmap) |->
        [pmap[p] EXCEPT
            !.sectors = [s \in Indices(pmap[p].sectors) |->
                [pmap[p].sectors[s] EXCEPT
                    !.positions = result[p].sectors[s].positions]]]]

ServiceCall(method, total, r, result) ==
    /\ raised' = IF CalculateRaises(portfolio_map, portfolio_builder_data)
                 THEN "TypeError" ELSE NoneValue
    /\ portfolios' = IF CalculateRaises(portfolio_map, portfolio_builder_data)
                     THEN <<>> ELSE result
    /\ portfolio_map' =
          IF CalculateRaises(portfolio_map, portfolio_builder_data)
          THEN MapAtRaise(portfolio_map, portfolio_builder_data,
                          target_allocations, total)
          ELSE MapAfterCall(portfolio_map, result)
    /\ total_current_value' = total
    /\ rules' = r
    /\ last_call' = method
    /\ calls' = calls + 1
    /\ UNCHANGED <<portfolio_builder_data, target_allocations, portfolio_data>>
    /\ UNCHANGED <<allocator_vars, rebalancing_vars, validation_vars, cache_vars>>

CallCalculateAllocationTargets ==
    /\ calls < MaxCalls
    /\ \E total \in TotalValues :
          ServiceCall("calculate_allocation_targets", total, <<>>,
                      CalculateAllocationTargets(
                          portfolio_map, portfolio_builder_data,
                          target_allocations, total))

CallCalculateAllocationTargetsWithTypeConstraints ==
    /\ calls < MaxCalls
    /\ \E total \in TotalValues, r \in RulesChoices :
          ServiceCall("calculate_allocation_targets_with_type_constraints", total, r,
                      CalculateAllocationTargetsWithTypeConstraints(
                          portfolio_map, portfolio_builder_data,
                          target_allocations, total, r))

NextService ==
    \/ CallCalculateAllocationTargets
    \/ CallCalculateAllocationTargetsWithTypeConstraints

SpecService == InitService /\ [][NextService]_vars

(***************************************************************************)
(* The allocation data of an account as a state machine                    *)
(* (_get_simulator_portfolio_data_internal in src/app/routes/              *)
(* portfolio_api.py): get_portfolio_positions on the rows and the          *)
(* configuration, then calculate_allocation_targets_with_type_constraints  *)
(* on what it returned, with the tree's total current value.               *)
(***************************************************************************)
PortfolioRefs == {<<1, "P1">>, <<2, "P2">>}
RowCompanies == {"A", "B"}
RowSectors == {NoneValue, "Tech"}
RowTypes == {"Stock", "ETF", "Bond", NoneValue}
RowValues == {R(0), R(1000)}

\* a row of a portfolio without companies
EmptyRow(ref) ==
    [portfolio_id |-> ref[1], portfolio_name |-> ref[2], company_name |-> NoneValue,
     sector |-> NoneValue, identifier |-> NoneValue, investment_type |-> NoneValue,
     value |-> Zero]

HoldingRow(ref, company, sector, type, value) ==
    [portfolio_id |-> ref[1], portfolio_name |-> ref[2], company_name |-> company,
     sector |-> sector, identifier |-> "ID", investment_type |-> type,
     value |-> value]

Rows ==
    {EmptyRow(ref) : ref \in PortfolioRefs} \cup
    {HoldingRow(ref, c, sec, t, v) :
        ref \in PortfolioRefs, c \in RowCompanies, sec \in RowSectors,
        t \in RowTypes, v \in RowValues}

RowInputs == UNION {[1..n -> Rows] : n \in 1..MaxRows}

RealEntry(company) == [companyName |-> company, isPlaceholder |-> FALSE]
WeightedEntry(company, weight) ==
    [companyName |-> company, isPlaceholder |-> FALSE, weight |-> weight]
PlaceholderEntry(weight) ==
    [companyName |-> NoneValue, isPlaceholder |-> TRUE, weight |-> weight]

ConfigChoices ==
    {<<>>,
     <<[name |-> "P1", allocation |-> R(50),
        positions |-> <<WeightedEntry("A", R(40)), WeightedEntry("B", NoneNumber)>>]>>,
     <<[name |-> "P1", allocation |-> R(50), minPositions |-> 3,
        positions |-> <<PlaceholderEntry(R(10))>>]>>,
     <<[name |-> "P2", allocation |-> R(100),
        positions |-> <<RealEntry("A"), WeightedEntry("B", Zero)>>],
       [name |-> "P1", positions |-> <<PlaceholderEntry(Zero)>>]>>,
     <<[name |-> "P1", allocation |-> R(50), minPositions |-> 1,
        desiredPositions |-> 3,
        positions |-> <<WeightedEntry("A", R(40)), PlaceholderEntry(NoneNumber)>>]>>}

InitPositions ==
    /\ portfolio_data \in RowInputs
    /\ target_allocations \in ConfigChoices
    /\ rules \in RulesChoices
    /\ portfolio_map = <<>>
    /\ portfolio_builder_data = <<>>
    /\ total_current_value = Zero
    /\ portfolios = <<>>
    /\ last_call = NoneValue
    /\ calls = 0
    /\ raised = NoneValue
    /\ RebalancingIdle
    /\ ValidationIdle
    /\ CacheIdle
    /\ positions = <<>>
    /\ portfolio_target_value = Zero
    /\ max_stock_pct = Zero
    /\ max_etf_pct = Zero
    /\ max_crypto_pct = Zero
    /\ iteration = 0
    /\ max_iterations = DefaultMaxIterations
    /\ pc = "returned"
    /\ outcome = NoneValue
    /\ run = 1
    /\ first_result = <<>>

\* Step 1: get_portfolio_positions
CallGetPortfolioPositions ==
    /\ last_call = NoneValue
    /\ portfolio_map' =
          GetPortfolioPositions(portfolio_data, target_allocations, rules).portfolio_map
    /\ portfolio_builder_data' =
          GetPortfolioPositions(portfolio_data, target_allocations,
                                rules).portfolio_builder_data
    /\ last_call' = "get_portfolio_positions"
    /\ calls' = calls + 1
    /\ UNCHANGED <<portfolio_data, target_allocations, rules, total_current_value,
                   portfolios, raised>>
    /\ UNCHANGED <<allocator_vars, rebalancing_vars, validation_vars, cache_vars>>

\* total_current_value = sum(pdata['currentValue'] for pdata in portfolio_map.values())
TreeTotal(pmap) == RSum([p \in Indices(pmap) |-> pmap[p].currentValue])

\* Step 2: calculate_allocation_targets_with_type_constraints
CallAllocateTree ==
    /\ last_call = "get_portfolio_positions"
    /\ ServiceCall("calculate_allocation_targets_with_type_constraints",
                   TreeTotal(portfolio_map), rules,
                   CalculateAllocationTargetsWithTypeConstraints(
                       portfolio_map, portfolio_builder_data, target_allocations,
                       TreeTotal(portfolio_map), rules))

NextPositions ==
    \/ CallGetPortfolioPositions
    \/ CallAllocateTree

SpecPositions == InitPositions /\ [][NextPositions]_vars

(***************************************************************************)
(* calculate_rebalancing: a fresh investment amount is spread over a flat  *)
(* list of holdings in one of three modes.  Decimal arithmetic is taken as *)
(* exact.  A holding is a dict with the keys id, name, identifier,         *)
(* price_eur (a number or None) and current_value; target_allocations is a *)
(* dict from company id to percent, a list of <<id, percent>> in the order *)
(* of insertion.                                                           *)
(***************************************************************************)
\* the most holdings given to calculate_rebalancing
MaxCompanies == 3

\* a RebalancingRecommendation
RebalancingRecommendation(company_name, identifier, current_value, target_value, amount_to_buy, shares_to_buy, current_price) ==
    [company_name |-> company_name,
     identifier |-> identifier,
     current_value |-> current_value,
     target_value |-> target_value,
     amount_to_buy |-> amount_to_buy,
     shares_to_buy |-> shares_to_buy,
     current_price |-> current_price]

\* next((c for c in portfolio_data if c['id'] == company_id), None): the
\* holdings of that id, of which the callers take the first; <<>> for None
FindCompany(holdings, company_id) ==
    SelectSeq(holdings, LAMBDA c : c.id = company_id)

\* not company or not company.get('price_eur')
NoCompanyOrPrice(holdings, company_id) ==
    \/ FindCompany(holdings, company_id) = <<>>
    \/ ~Truthy(FindCompany(holdings, company_id)[1].price_eur)

\* mutant: the percent is not divided by 100
ProportionalRecommendationNoPercent(company, target_pct, amount) ==
    [company_name |-> company.name,
     identifier |-> company.identifier,
     current_value |-> company.current_value,
     target_value |-> RMul(amount, target_pct),
     amount_to_buy |-> RMul(amount, target_pct),
     shares_to_buy |-> RDiv(RMul(amount, target_pct), company.price_eur),
     current_price |-> company.price_eur]

\* the recommendation _calculate_proportional appends for one entry
ProportionalRecommendation(company, target_pct, amount) ==
    LET allocation_amount == RMul(amount, RDiv(target_pct, Hundred))
        current_price == company.price_eur
    IN  RebalancingRecommendation(company.name, company.identifier,
                                  company.current_value, allocation_amount,
                                  allocation_amount,
                                  RDiv(allocation_amount, current_price),
                                  current_price)

RECURSIVE CalculateProportional(_, _, _)
CalculateProportional(holdings, allocations, amount) ==
    IF allocations = <<>> THEN <<>>
    ELSE LET company_id == allocations[1][1]
             target_pct == allocations[1][2]
             rest == CalculateProportional(holdings, Tail(allocations), amount)
         IN  IF NoCompanyOrPrice(holdings, company_id) THEN rest
             ELSE <<ProportionalRecommendation(FindCompany(holdings, company_id)[1],
                                               target_pct, amount)>> \o rest

\* current_total_value
CurrentTotalValue(holdings) ==
    RSum([i \in Indices(holdings) |-> holdings[i].current_value])

\* max(Decimal('0'), x)
RMaxZero(x) == IF RGt(x, Zero) THEN x ELSE Zero

\* mutant: what is held already is not taken off the target
GapIgnoringHeld(target_value, current_value) == RMaxZero(target_value)

\* amount_to_buy of _calculate_target_weights
GapToTarget(target_value, current_value) ==
    RMaxZero(RSub(target_value, current_value))

\* the recommendation _calculate_target_weights appends for one entry
TargetWeightsRecommendation(company, target_pct, new_total_value) ==
    LET target_value == RMul(new_total_value, RDiv(target_pct, Hundred))
        amount_to_buy == GapToTarget(target_value, company.current_value)
        current_price == company.price_eur
    IN  RebalancingRecommendation(company.name, company.identifier,
                                  company.current_value, target_value,
                                  amount_to_buy,
                                  RDiv(amount_to_buy, current_price),
                                  current_price)

RECURSIVE TargetWeightsLoop(_, _, _)
TargetWeightsLoop(holdings, allocations, new_total_value) ==
    IF allocations = <<>> THEN <<>>
    ELSE LET company_id == allocations[1][1]
             target_pct == allocations[1][2]
             rest == TargetWeightsLoop(holdings, Tail(allocations), new_total_value)
         IN  IF NoCompanyOrPrice(holdings, company_id) THEN rest
             ELSE LET company == FindCompany(holdings, company_id)[1]
                      target_value == RMul(new_total_value, RDiv(target_pct, Hundred))
                  IN  IF RGt(GapToTarget(target_value, company.current_value), Zero)
                      THEN <<TargetWeightsRecommendation(company, target_pct,
                                                         new_total_value)>> \o rest
                      ELSE rest

CalculateTargetWeights(holdings, allocations, amount) ==
    TargetWeightsLoop(holdings, allocations,
                      RAdd(CurrentTotalValue(holdings), amount))

\* mutant: a holding with a negative price is taken as valid
HoldingsWithAnyPrice(holdings) ==
    SelectSeq(holdings, LAMBDA c : Truthy(c.price_eur))

\* valid_holdings
ValidHoldings(holdings) ==
    SelectSeq(holdings, LAMBDA c : Truthy(c.price_eur) /\ RGt(c.price_eur, Zero))

CalculateEqualWeight(holdings, amount) ==
    LET valid_holdings == ValidHoldings(holdings)
        amount_per_holding == RDiv(amount, R(Len(valid_holdings)))
    IN  IF valid_holdings = <<>> THEN <<>>
        ELSE [i \in Indices(valid_holdings) |->
                RebalancingRecommendation(
                    valid_holdings[i].name, valid_holdings[i].identifier,
                    valid_holdings[i].current_value,
                    RAdd(valid_holdings[i].current_value, amount_per_holding),
                    amount_per_holding,
                    RDiv(amount_per_holding, valid_holdings[i].price_eur),
                    valid_holdings[i].price_eur)]

(***************************************************************************)
(* The specification of calculate_rebalancing: any list of up to           *)
(* MaxCompanies holdings, any target map, one call in any mode.            *)
(***************************************************************************)
CompanyNames == <<"X", "Y", "Z", "V">>
Prices == {NoneNumber, R(0), R(50), R(-50)}
CurrentValues == {R(0), R(8000)}
TargetPercents == {R(0), R(50), R(100)}
InvestmentAmounts == {R(2000), R(3000)}

\* the holding of company id i
Company(i, price, value) ==
    [id |-> i, name |-> CompanyNames[i], identifier |-> CompanyNames[i],
     price_eur |-> price, current_value |-> value]

HoldingLists ==
    UNION {[1..n -> Prices \X CurrentValues] : n \in 0..MaxCompanies}

\* the ids a target map may name: the holdings' and one that is not held
TargetIds == 1..(MaxCompanies + 1)

\* dicts of at most two entries, in either order of insertion
TargetMaps ==
    {<<>>}
    \cup {<<<<k, pct>>>> : k \in {1, 2, MaxCompanies + 1}, pct \in TargetPercents}
    \cup {<<<<k[1], pct[1]>>, <<k[2], pct[2]>>>> :
            k \in {<<1, 2>>, <<2, 1>>, <<2, MaxCompanies + 1>>},
            pct \in TargetPercents \X TargetPercents}

InitRebalance ==
    /\ \E hs \in HoldingLists :
          portfolio_data = [i \in DOMAIN hs |-> Company(i, hs[i][1], hs[i][2])]
    /\ target_allocations \in TargetMaps
    /\ investment_amount \in InvestmentAmounts
    /\ mode = NoneValue
    /\ recommendations = <<>>
    /\ ValidationIdle
    /\ CacheIdle
    /\ portfolio_map = <<>>
    /\ portfolio_builder_data = <<>>
    /\ total_current_value = Zero
    /\ rules = <<>>
    /\ portfolios = <<>>
    /\ last_call = NoneValue
    /\ calls = 0
    /\ raised = NoneValue
    /\ positions = <<>>
    /\ portfolio_target_value = Zero
    /\ max_stock_pct = Zero
    /\ max_etf_pct = Zero
    /\ max_crypto_pct = Zero
    /\ iteration = 0
    /\ max_iterations = DefaultMaxIterations
    /\ pc = "returned"
    /\ outcome = NoneValue
    /\ run = 1
    /\ first_result = <<>>

\* calculate_rebalancing called with mode m, returning result or raising
RebalancingCall(m, result, exception) ==
    /\ last_call = NoneValue
    /\ mode' = m
    /\ recommendations' = result
    /\ raised' = exception
    /\ last_call' = "calculate_rebalancing"
    /\ UNCHANGED <<portfolio_data, target_allocations, investment_amount>>
    /\ UNCHANGED <<portfolio_map, portfolio_builder_data, total_current_value,
                   rules, portfolios, calls>>
    /\ UNCHANGED <<allocator_vars, validation_vars, cache_vars>>

RebalanceProportional ==
    RebalancingCall("proportional",
                    CalculateProportional(portfolio_data, target_allocations,
                                          investment_amount),
                    NoneValue)

RebalanceTargetWeights ==
    RebalancingCall("target_weights",
                    CalculateTargetWeights(portfolio_data, target_allocations,
                                           investment_amount),
                    NoneValue)

RebalanceEqualWeight ==
    RebalancingCall("equal_weight",
                    CalculateEqualWeight(portfolio_data, investment_amount),
                    NoneValue)

RebalanceUnknownMode ==
    RebalancingCall("other", <<>>, "ValueError")

NextRebalance ==
    \/ RebalanceProportional
    \/ RebalanceTargetWeights
    \/ RebalanceEqualWeight
    \/ RebalanceUnknownMode

SpecRebalance == InitRebalance /\ [][NextRebalance]_vars

(***************************************************************************)
(* validate_allocations: a dict from company id to percent, a list of      *)
(* <<id, percent>>, is checked against the rules of the service.  The      *)
(* result is the pair (is_valid, error_message); of a message only its     *)
(* fixed part is kept.                                                     *)
(***************************************************************************)
\* the most entries of a dict given to validate_allocations
MaxAllocations == 2

\* abs() of a float
RAbs(x) == IF RGt(Zero, x) THEN RSub(Zero, x) ELSE x

\* the literal 0.01
Tolerance == <<1, 100>>

\* total = sum(allocations.values())
AllocationTotal(allocs) == RSum([i \in Indices(allocs) |-> allocs[i][2]])

\* abs(total - 100.0) > 0.01
SumOffTarget(allocs) ==
    RGt(RAbs(RSub(AllocationTotal(allocs), Hundred)), Tolerance)

\* mutant: any sum is taken as 100
SumNeverOffTarget(allocs) == FALSE

\* some pct > self.rules.max_stock_percentage
ExceedsMaxStock(allocs, max_stock) ==
    \E i \in Indices(allocs) : RGt(allocs[i][2], max_stock)

ValidateAllocations(allocs, max_stock) ==
    IF SumOffTarget(allocs)
    THEN <<FALSE, "Allocations must sum to 100%">>
    ELSE IF ExceedsMaxStock(allocs, max_stock)
    THEN <<FALSE, "Stock allocation exceeds max">>
    ELSE <<TRUE, NoneValue>>

AllocationPercents ==
    {R(0), R(5), R(40), R(60), R(100), <<19999, 200>>, <<4999, 50>>}

\* AllocationService(rules): the default rules or a limit of 100 percent
RuleMaxStockChoices == {DefaultRuleMaxStock, Hundred}

AllocationMaps ==
    UNION {{[i \in 1..n |-> <<i, pcts[i]>>] : pcts \in [1..n -> AllocationPercents]} :
             n \in 0..MaxAllocations}

InitValidate ==
    /\ validated_allocations \in AllocationMaps
    /\ max_stock_percentage \in RuleMaxStockChoices
    /\ validation = <<>>
    /\ RebalancingIdle
    /\ ServiceIdle
    /\ CacheIdle
    /\ positions = <<>>
    /\ portfolio_target_value = Zero
    /\ max_stock_pct = Zero
    /\ max_etf_pct = Zero
    /\ max_crypto_pct = Zero
    /\ iteration = 0
    /\ max_iterations = DefaultMaxIterations
    /\ pc = "returned"
    /\ outcome = NoneValue
    /\ run = 1
    /\ first_result = <<>>

CallValidateAllocations ==
    /\ validation = <<>>
    /\ validation' = ValidateAllocations(validated_allocations, max_stock_percentage)
    /\ UNCHANGED <<validated_allocations, max_stock_percentage>>
    /\ UNCHANGED <<allocator_vars, service_vars, rebalancing_vars, cache_vars>>

NextValidate == CallValidateAllocations

SpecValidate == InitValidate /\ [][NextValidate]_vars

(***************************************************************************)
(* The memoized simulator data of one account: requests that read it and   *)
(* handlers that write the account's portfolio data.  A version counts the *)
(* writes committed to the database; a result is named by the version of   *)
(* the data it was computed from.                                          *)
(***************************************************************************)
MaxWrites == 2
MaxReaders == 2

Requests == 1..MaxReaders

\* handlers that call invalidate_portfolio_cache after their commit
InvalidatingHandlers == {"manage_state", "update_portfolio_api", "manage_portfolios"}

\* handlers that write portfolio data and return without invalidating
SilentHandlers == {"add_company", "delete_manual_companies"}

NoResult == 0 - 1

\* cache.memoize: an entry for the account is present
Memoized(entry) == entry # <<>>

\* cache.memoize: the entry stored after the function has run
MemoizedEntry(result) == <<result>>

\* cache.delete_memoized(_get_simulator_portfolio_data_internal, account_id)
DeleteMemoized(entry) == <<>>

Request(p, floor, result) == [pc |-> p, floor |-> floor, result |-> result]

InitCache ==
    /\ db_version = 0
    /\ cached = <<>>
    /\ readers = [r \in Requests |-> Request("idle", 0, NoResult)]
    /\ writer = NoneValue
    /\ completed_version = 0
    /\ ValidationIdle
    /\ RebalancingIdle
    /\ ServiceIdle
    /\ positions = <<>>
    /\ portfolio_target_value = Zero
    /\ max_stock_pct = Zero
    /\ max_etf_pct = Zero
    /\ max_crypto_pct = Zero
    /\ iteration = 0
    /\ max_iterations = DefaultMaxIterations
    /\ pc = "returned"
    /\ outcome = NoneValue
    /\ run = 1
    /\ first_result = <<>>

CacheFrame ==
    UNCHANGED <<allocator_vars, service_vars, rebalancing_vars, validation_vars>>

\* get_simulator_portfolio_data calls the memoized function: on a hit the
\* entry is returned, on a miss the function body is entered
GetSimulatorPortfolioData(r) ==
    /\ readers[r].pc \in {"idle", "done"}
    /\ readers' = [readers EXCEPT ![r] =
                     IF Memoized(cached)
                     THEN Request("done", completed_version, cached[1])
                     ELSE Request("missed", completed_version, NoResult)]
    /\ UNCHANGED <<db_version, cached, writer, completed_version>>
    /\ CacheFrame

\* the body of _get_simulator_portfolio_data_internal reads the database
QueryDatabase(r) ==
    /\ readers[r].pc = "missed"
    /\ readers' = [readers EXCEPT ![r] = Request("computed", @.floor, db_version)]
    /\ UNCHANGED <<db_version, cached, writer, completed_version>>
    /\ CacheFrame

\* the decorator stores what the body returned and the request returns it
StoreResult(r) ==
    /\ readers[r].pc = "computed"
    /\ cached' = MemoizedEntry(readers[r].result)
    /\ readers' = [readers EXCEPT ![r] = Request("done", @.floor, @.result)]
    /\ UNCHANGED <<db_version, writer, completed_version>>
    /\ CacheFrame

\* db.commit() of a handler that goes on to invalidate
HandlerCommits(h) ==
    /\ writer = NoneValue
    /\ db_version < MaxWrites
    /\ db_version' = db_version + 1
    /\ writer' = h
    /\ UNCHANGED <<cached, readers, completed_version>>
    /\ CacheFrame

\* invalidate_portfolio_cache(account_id), after which the handler returns
InvalidatePortfolioCache ==
    /\ writer \in InvalidatingHandlers
    /\ cached' = DeleteMemoized(cached)
    /\ writer' = NoneValue
    /\ completed_version' = db_version
    /\ UNCHANGED <<db_version, readers>>
    /\ CacheFrame

\* add_company and delete_manual_companies: the service writes and commits,
\* the handler returns the result
HandlerWithoutInvalidation(h) ==
    /\ writer = NoneValue
    /\ db_version < MaxWrites
    /\ db_version' = db_version + 1
    /\ completed_version' = db_version + 1
    /\ UNCHANGED <<cached, readers, writer>>
    /\ CacheFrame

\* timeout=60 of the memoized entry
EntryTimesOut ==
    /\ Memoized(cached)
    /\ cached' = <<>>
    /\ UNCHANGED <<db_version, readers, writer, completed_version>>
    /\ CacheFrame

NextCache ==
    \/ \E r \in Requests : GetSimulatorPortfolioData(r)
    \/ \E r \in Requests : QueryDatabase(r)
    \/ \E r \in Requests : StoreResult(r)
    \/ \E h \in InvalidatingHandlers : HandlerCommits(h)
    \/ InvalidatePortfolioCache
    \/ \E h \in SilentHandlers : HandlerWithoutInvalidation(h)
    \/ EntryTimesOut

SpecCache == InitCache /\ [][NextCache]_vars

(***************************************************************************)
(* Vocabulary of the properties.                                           *)
(***************************************************************************)
Returned == pc = "returned"
HitCeiling == outcome = "max_iterations"
PositiveValue == RGt(portfolio_target_value, Zero)
RLt(a, b) == RGt(b, a)

\* the cap of a position's asset class as an amount of money
ClassCapValue(pos) ==
    RDiv(RMul(CapPct(pos.investment_type, Caps), portfolio_target_value), Hundred)

\* the share of the portfolio a position was asked to have, times 100
OriginalPct(pos) ==
    RDiv(RMul(pos.unconstrained_target_value, Hundred), portfolio_target_value)

TotalConstrained ==
    RSum([i \in Indices(positions) |-> positions[i].constrained_target_value])
TotalUnconstrained ==
    RSum([i \in Indices(positions) |-> positions[i].unconstrained_target_value])

SomeCapped == \E i \in Indices(positions) : IsCapped(positions[i])
AllKnownTypes ==
    \A i \in Indices(positions) : positions[i].investment_type \in KnownTypes
ClassRules == {"maxPerStock", "maxPerETF", "maxPerCrypto"}

\* C1: when the allocator returns for a portfolio of positive target value
\* without having hit the iteration ceiling, no Stock, ETF or Crypto position
\* holds more than the cap of its class.
CapRespected ==
    (Returned /\ PositiveValue /\ ~HitCeiling) =>
        \A i \in Indices(positions) :
            positions[i].investment_type \in KnownTypes =>
                RLeq(positions[i].constrained_target_value,
                     ClassCapValue(positions[i]))

\* C1 witness: a call that capped one position by its class rule and raised
\* another by redistribution has returned.
CapRespectedWitness ==
    /\ Returned /\ PositiveValue /\ ~HitCeiling /\ run = 1
    /\ \E i \in Indices(positions) :
          /\ IsCapped(positions[i])
          /\ positions[i].applicable_rule \in ClassRules
    /\ \E j \in Indices(positions) :
          /\ ~IsCapped(positions[j])
          /\ RGt(positions[j].constrained_target_value,
                 positions[j].unconstrained_target_value)

\* C2 as stated: whenever some position was capped, the constrained values
\* sum to at most the portfolio target value, whatever the weights sum to.
ConservationUpperBoundAnyWeights ==
    (Returned /\ PositiveValue /\ SomeCapped
        /\ max_iterations = DefaultMaxIterations) =>
        RLeq(TotalConstrained, portfolio_target_value)

\* C2 amended: whenever some position was capped and the original target
\* values sum to at most the portfolio target value, the constrained values
\* sum to at most the portfolio target value.
ConservationUpperBound ==
    (Returned /\ PositiveValue /\ SomeCapped
        /\ RLeq(TotalUnconstrained, portfolio_target_value)) =>
        RLeq(TotalConstrained, portfolio_target_value)

\* C2 witness: a call with original targets within the portfolio value has
\* capped a position by its class rule, redistributed and returned.
ConservationUpperBoundWitness ==
    /\ Returned /\ PositiveValue /\ run = 1
    /\ RLeq(TotalUnconstrained, portfolio_target_value)
    /\ \E i \in Indices(positions) :
          /\ IsCapped(positions[i])
          /\ positions[i].applicable_rule \in ClassRules
    /\ \E j \in Indices(positions) :
          /\ ~IsCapped(positions[j])
          /\ RGt(positions[j].constrained_target_value,
                 positions[j].unconstrained_target_value)

\* no position of a capped class was asked to hold more than its cap
NoCapBinds ==
    \A i \in Indices(positions) :
        positions[i].investment_type \in KnownTypes =>
            ~RGt(OriginalPct(positions[i]),
                 CapPct(positions[i].investment_type, Caps))

NothingChanged ==
    \A i \in Indices(positions) :
        positions[i].constrained_target_value =
            positions[i].unconstrained_target_value

\* C3 as stated: if no position's original percent is above the cap of its
\* asset class, every position is returned with its original value.
NoCapBindsNothingChangesAnyType ==
    (Returned /\ PositiveValue /\ NoCapBinds
        /\ max_iterations = DefaultMaxIterations) => NothingChanged

\* C3 amended: in a portfolio of positive target value whose positions are
\* all Stock, ETF or Crypto, if no position's original percent is above the
\* cap of its class, every position is returned with its original value.
NoCapBindsNothingChanges ==
    (Returned /\ PositiveValue /\ AllKnownTypes /\ NoCapBinds) => NothingChanged

\* C3 witness: a call on two or more Stock/ETF/Crypto positions with
\* non-zero targets, none above its cap, has returned.
NoCapBindsWitness ==
    /\ Returned /\ PositiveValue /\ AllKnownTypes /\ NoCapBinds /\ run = 1
    /\ Len(positions) >= 2
    /\ \A i \in Indices(positions) :
          RGt(positions[i].unconstrained_target_value, Zero)
    /\ \E i \in Indices(positions) :
          OriginalPct(positions[i]) = CapPct(positions[i].investment_type, Caps)

\* C4 as stated: when no cap binds, the constrained values of the positions
\* sum to the portfolio target value.
ConservationEqualityAnyWeights ==
    (Returned /\ PositiveValue /\ NoCapBinds /\ AllKnownTypes
        /\ max_iterations = DefaultMaxIterations) =>
        TotalConstrained = portfolio_target_value

\* C4 amended: when no cap binds and the positions' target weights sum to
\* 100% (their unconstrained target values sum to the portfolio target
\* value), the constrained values sum to the portfolio target value.
ConservationEquality ==
    (Returned /\ PositiveValue /\ NoCapBinds /\ AllKnownTypes
        /\ TotalUnconstrained = portfolio_target_value) =>
        TotalConstrained = portfolio_target_value

\* C4 witness: a call on positions of different classes whose weights sum to
\* 100%, none above its cap, has returned.
ConservationEqualityWitness ==
    /\ Returned /\ PositiveValue /\ NoCapBinds /\ AllKnownTypes /\ run = 1
    /\ TotalUnconstrained = portfolio_target_value
    /\ outcome = "converged"
    /\ \E i, j \in Indices(positions) :
          /\ positions[i].investment_type # positions[j].investment_type
          /\ RGt(positions[i].constrained_target_value, Zero)
          /\ RGt(positions[j].constrained_target_value, Zero)

SameConstrainedAsFirst ==
    \A i \in Indices(positions) :
        positions[i].constrained_target_value =
            first_result[i].constrained_target_value

\* C5 as stated: the allocator run again on its own output (returned without
\* hitting the ceiling) returns the same constrained values.
IdempotenceAnyType ==
    (Returned /\ run = 2 /\ max_iterations = DefaultMaxIterations) =>
        SameConstrainedAsFirst

\* C5 amended: for positions that are all Stock, ETF or Crypto, the allocator
\* run again on its own output returns the same constrained values.
Idempotence ==
    (Returned /\ run = 2 /\ AllKnownTypes) => SameConstrainedAsFirst

\* C5 witness: the second call has returned on an output of the first call
\* in which a position was capped and another one raised.
IdempotenceWitness ==
    /\ Returned /\ run = 2 /\ AllKnownTypes /\ PositiveValue
    /\ \E i \in Indices(first_result) :
          /\ first_result[i].is_capped
          /\ RLt(first_result[i].constrained_target_value,
                 first_result[i].unconstrained_target_value)
    /\ \E j \in Indices(first_result) :
          /\ ~first_result[j].is_capped
          /\ RGt(first_result[j].constrained_target_value,
                 first_result[j].unconstrained_target_value)

\* C6: within one call, a position that is capped after some pass stays
\* capped, at the same value and under the same rule, in every later pass.
MonotonicCapping ==
    [][(pc = "running" /\ iteration > 0) =>
        \A i \in Indices(positions) :
            IsCapped(positions[i]) =>
                /\ IsCapped(positions'[i])
                /\ positions'[i].constrained_target_value =
                       positions[i].constrained_target_value
                /\ positions'[i].applicable_rule = positions[i].applicable_rule]_vars

\* C6 witness: a third pass has run with a position capped since the first
\* pass and another position capped later.
MonotonicCappingWitness ==
    /\ iteration >= 2 /\ PositiveValue
    /\ \E i, j \in Indices(positions) :
          /\ i # j
          /\ IsCapped(positions[i]) /\ IsCapped(positions[j])
          /\ positions[i].applicable_rule # positions[j].applicable_rule

(***************************************************************************)
(* Vocabulary of the claims about the service calls.                       *)
(***************************************************************************)
\* the state right after the first call on a freshly built portfolio tree,
\* that call being calculate_allocation_targets_with_type_constraints
FirstConstrainedCall ==
    /\ calls = 1
    /\ last_call = "calculate_allocation_targets_with_type_constraints"

\* all the positions of a portfolio entry, placeholder sectors included
RECURSIVE EveryPosition(_, _)
EveryPosition(sectors, s) ==
    IF s > Len(sectors) THEN <<>>
    ELSE sectors[s].positions \o EveryPosition(sectors, s + 1)

\* a position the constraint resolution is to leave out
IsSkipped(pos) ==
    \/ pos.isPlaceholder
    \/ pos.identifier = NoneValue
    \/ pos.investment_type = NoneValue

CarriesMetadata(pos) == pos.has_meta

\* the position as it was in the tree before any call
AsBuilt(pos) ==
    HoldingPosition(pos.name, pos.identifier, pos.investment_type,
                    pos.currentValue, pos.targetAllocation)

\* the tree as built, without the positions that are to be left out
TreeWithoutSkipped(pmap) ==
    [p \in Indices(pmap) |->
        [pmap[p] EXCEPT
            !.sectors = [s \in Indices(pmap[p].sectors) |->
                [pmap[p].sectors[s] EXCEPT
                    !.positions =
                        SelectSeq([i \in Indices(pmap[p].sectors[s].positions) |->
                                      AsBuilt(pmap[p].sectors[s].positions[i])],
                                  LAMBDA pos : ~IsSkipped(pos))]]]]

\* per portfolio, what the result says of its valid positions, in order
ValidOutcomes(result) ==
    [p \in Indices(result) |->
        LET every == EveryPosition(result[p].sectors, 1)
            valid == SelectSeq(every, LAMBDA pos : ~IsSkipped(pos))
        IN  [k \in Indices(valid) |->
                <<valid[k].name, valid[k].has_meta, IsCapped(valid[k]),
                  valid[k].constrained_target_value, valid[k].applicable_rule>>]]

\* C7 as stated: in the output of
\* calculate_allocation_targets_with_type_constraints no position with a null
\* investment_type, without identifier, or that is a placeholder carries
\* is_capped / constrained_target_value / applicable_rule, and the valid
\* positions get what they would get if the skipped positions were not in
\* the portfolio; also when a skipped position has the name of a valid one.
SkipCorrectness ==
    FirstConstrainedCall =>
        /\ \A p \in Indices(portfolios) :
              LET every == EveryPosition(portfolios[p].sectors, 1)
              IN  \A i \in Indices(every) :
                      IsSkipped(every[i]) => ~CarriesMetadata(every[i])
        /\ ValidOutcomes(portfolios) =
              ValidOutcomes(CalculateAllocationTargetsWithTypeConstraints(
                  TreeWithoutSkipped(portfolio_map), portfolio_builder_data,
                  target_allocations, total_current_value, rules))

ScenarioA ==
    /\ Len(positions) = 2
    /\ positions[1].investment_type = "Stock"
    /\ positions[2].investment_type = "Stock"
    /\ positions[1].unconstrained_target_value = R(9000)
    /\ positions[2].unconstrained_target_value = R(1000)
    /\ portfolio_target_value = R(10000)
    /\ max_stock_pct = R(50)
    /\ max_iterations = DefaultMaxIterations
    /\ run = 1
    /\ Returned

\* C8 as stated: in Scenario A position 1 is capped at 5,000, position 2 is
\* also marked capped at exactly 5,000, the total is 10,000 and the call
\* converged in 2 passes.
ScenarioABothCapped ==
    ScenarioA =>
        /\ positions[1].is_capped
        /\ positions[1].constrained_target_value = R(5000)
        /\ positions[2].is_capped
        /\ positions[2].constrained_target_value = R(5000)
        /\ TotalConstrained = R(10000)
        /\ outcome = "converged" /\ iteration + 1 = 2

\* C8 amended: in Scenario A position 1 is capped at 5,000 by maxPerStock,
\* position 2 receives exactly 5,000 and is not marked capped (5,000 does
\* not exceed its cap), the total is 10,000 and the call converged in 2
\* passes.
ScenarioABoundary ==
    ScenarioA =>
        /\ positions[1].is_capped
        /\ positions[1].applicable_rule = "maxPerStock"
        /\ positions[1].constrained_target_value = R(5000)
        /\ ~positions[2].is_capped
        /\ positions[2].applicable_rule = NoneValue
        /\ positions[2].constrained_target_value = R(5000)
        /\ TotalConstrained = R(10000)
        /\ outcome = "converged" /\ iteration + 1 = 2

\* C8 witness: the call of Scenario A has returned.
ScenarioAWitness == ScenarioA /\ outcome = "converged"

\* C9 as stated: for a portfolio whose target value is 0 or negative,
\* calculate_allocation_targets_with_type_constraints returns every valid
\* position of the portfolio with constrained_target_value = 0, is_capped
\* true and applicable_rule 'zero_portfolio_value'.
ZeroPortfolioValue ==
    FirstConstrainedCall =>
        \A p \in Indices(portfolios) :
            RLeq(portfolios[p].targetValue, Zero) =>
                LET every == EveryPosition(portfolios[p].sectors, 1)
                IN  \A i \in Indices(every) :
                        ~IsSkipped(every[i]) =>
                            /\ CarriesMetadata(every[i])
                            /\ every[i].constrained_target_value = Zero
                            /\ every[i].is_capped
                            /\ every[i].applicable_rule = "zero_portfolio_value"

\* C10 as stated: every position has a constrained value >= 0, and every
\* capped position holds exactly the cap amount of its asset class.
PositionInvariantAnyType ==
    \A i \in Indices(positions) :
        (positions[i].has_meta /\ max_iterations = DefaultMaxIterations) =>
            /\ RLeq(Zero, positions[i].constrained_target_value)
            /\ positions[i].is_capped =>
                  /\ positions[i].investment_type \in KnownTypes
                  /\ positions[i].constrained_target_value =
                         ClassCapValue(positions[i])

\* C10 amended: every position has a constrained value >= 0; every capped
\* Stock, ETF or Crypto position holds exactly the cap amount of its class,
\* and a capped position of any other class holds 0.
PositionInvariant ==
    \A i \in Indices(positions) :
        positions[i].has_meta =>
            /\ RLeq(Zero, positions[i].constrained_target_value)
            /\ positions[i].is_capped =>
                  IF positions[i].investment_type \in KnownTypes
                  THEN positions[i].constrained_target_value =
                           ClassCapValue(positions[i])
                  ELSE positions[i].constrained_target_value = Zero

\* C10 witness: a position capped by its class rule at a non-zero amount
\* below its original target, next to a capped position of unknown class.
PositionInvariantWitness ==
    /\ PositiveValue
    /\ \E i, j \in Indices(positions) :
          /\ positions[i].has_meta /\ positions[i].is_capped
          /\ positions[i].applicable_rule \in ClassRules
          /\ RGt(positions[i].constrained_target_value, Zero)
          /\ positions[j].has_meta /\ positions[j].is_capped
          /\ positions[j].applicable_rule = "unknown_type"

Min(a, b) == IF a <= b THEN a ELSE b

\* the passes of the current call that have run to their end: pass k is the
\* invocation with iteration = k - 1; the invocation that finds
\* iteration >= max_iterations returns at once and is no pass
PassesDone ==
    IF Returned /\ ~HitCeiling THEN iteration + 1 ELSE iteration

\* the positions capped so far in the current call: none before its first
\* pass, which starts by marking every position uncapped
CappedInThisCall(ps, it) == CappedIdx(InitMetadata(ps, it))

\* C11: a call of the allocator on n positions makes at most
\* min(n + 1, max_iterations) passes (max_iterations is 100 unless the caller
\* passes another value), because every pass that does not stop marks at
\* least one previously uncapped position as capped and un-caps none; the
\* invocation that finds the ceiling reached returns the positions as they
\* are.
Termination ==
    /\ [](PassesDone <= Min(Len(positions) + 1, max_iterations))
    /\ [][(pc = "running" /\ iteration' = iteration + 1) =>
            /\ CappedInThisCall(positions, iteration) \subseteq CappedIdx(positions')
            /\ CappedInThisCall(positions, iteration) # CappedIdx(positions')]_vars
    /\ [][(pc = "running" /\ outcome' = "max_iterations") =>
            positions' = positions]_vars

\* C11 witness: a call on three positions has returned after four passes,
\* each of the first three having capped one position.
TerminationWitness ==
    /\ Returned /\ ~HitCeiling
    /\ Len(positions) = MaxPositions
    /\ PassesDone = Len(positions) + 1

(***************************************************************************)
(* Vocabulary of the claims about the allocation data of an account.       *)
(***************************************************************************)
\* all the entries of the configuration's position lists
RECURSIVE ConfigEntries(_)
ConfigEntries(targets) ==
    IF targets = <<>> THEN <<>>
    ELSE ConfigPositions(targets[1]) \o ConfigEntries(Tail(targets))

\* no placeholder of the configuration has a null weight
PlaceholderWeightsGiven ==
    \A i \in Indices(ConfigEntries(target_allocations)) :
        ConfigEntries(target_allocations)[i].isPlaceholder =>
            WeightGet(ConfigEntries(target_allocations)[i]) # NoneNumber

\* C12 as stated: get_portfolio_positions, calculate_allocation_targets and
\* calculate_allocation_targets_with_type_constraints raise no exception on
\* rows with null or unknown asset classes and zero values, a total value of
\* zero, portfolios without a configured weight, and configured real
\* positions whose weight is absent or null.
NoExceptionOnDataQuality ==
    PlaceholderWeightsGiven => raised = NoneValue

TreeBuilt == last_call # NoneValue

\* the holding rows of a portfolio's sector, in the order of the rows
SectorRows(portfolio_id, sector_name) ==
    SelectSeq(portfolio_data,
              LAMBDA row : /\ row.portfolio_id = portfolio_id
                           /\ row.company_name # NoneValue
                           /\ SectorName(row) = sector_name)

\* the entries of the configuration for a position of a portfolio
ExplicitEntries(portfolio_name, company_name) ==
    LET entries == ConfigEntries(SelectSeq(target_allocations,
                                           LAMBDA c : c.name = portfolio_name))
    IN  SelectSeq(entries, LAMBDA q : ~q.isPlaceholder /\ q.companyName = company_name)

\* the weight that rule of the configuration gives an asset class
RuleWeight(investment_type) ==
    CASE investment_type = "Stock" ->
            IF "maxPerStock" \in DOMAIN rules
            THEN rules["maxPerStock"] ELSE R(DefaultMaxStockPct)
      [] investment_type = "ETF" ->
            IF "maxPerETF" \in DOMAIN rules
            THEN rules["maxPerETF"] ELSE R(DefaultMaxEtfPct)
      [] investment_type = "Crypto" ->
            IF "maxPerCrypto" \in DOMAIN rules
            THEN rules["maxPerCrypto"] ELSE R(DefaultMaxCryptoPct)
      [] OTHER -> Zero

\* the portfolio is marked as using equal distribution
UsesEqualDistribution(portfolio_name) ==
    /\ portfolio_name \in DOMAIN portfolio_builder_data
    /\ "use_placeholder_weight" \in DOMAIN portfolio_builder_data[portfolio_name]

\* the target weight of a row by the priority (a), (b), (c)
ResolvedWeight(row) ==
    LET entries == ExplicitEntries(row.portfolio_name, row.company_name)
        positive == SelectSeq(entries, LAMBDA q : /\ WeightGet(q) # NoneNumber
                                                  /\ RGt(WeightGet(q), Zero))
    IN  IF positive # <<>> THEN positive[Len(positive)].weight
        ELSE IF UsesEqualDistribution(row.portfolio_name)
        THEN portfolio_builder_data[row.portfolio_name].placeholder_weight
        ELSE RuleWeight(row.investment_type)

RowsDriveTree ==
    TreeBuilt =>
        /\ \A ref \in PortfolioRefs :
              (\E p \in Indices(portfolio_map) :
                  /\ portfolio_map[p].id = ref[1]
                  /\ portfolio_map[p].name = ref[2])
              <=> (\E i \in Indices(portfolio_data) :
                      portfolio_data[i].portfolio_id = ref[1])
        /\ \A p, q \in Indices(portfolio_map) :
              portfolio_map[p].id = portfolio_map[q].id => p = q
        /\ (last_call = "calculate_allocation_targets_with_type_constraints"
            /\ raised = NoneValue) =>
              /\ Len(portfolios) = Len(portfolio_map)
              /\ \A p \in Indices(portfolios) :
                    portfolios[p].name = portfolio_map[p].name

\* C14 witness: the configuration names P1 and P2, the rows name P1 only, and
\* the list returned after the tree was built holds P1 alone.
RowsDriveTreeWitness ==
    /\ last_call = "calculate_allocation_targets_with_type_constraints"
    /\ raised = NoneValue
    /\ \E i \in Indices(target_allocations) : target_allocations[i].name = "P2"
    /\ \A i \in Indices(portfolio_data) : portfolio_data[i].portfolio_name = "P1"
    /\ Len(portfolios) = 1
    /\ portfolios[1].name = "P1"

\* the allocation the configuration gives a portfolio name, 0 if it has none
ConfiguredAllocation(portfolio_name) ==
    IF \E i \in Indices(target_allocations) :
          target_allocations[i].name = portfolio_name
    THEN LET first == CHOOSE i \in Indices(target_allocations) :
                         /\ target_allocations[i].name = portfolio_name
                         /\ \A j \in 1..(i - 1) :
                               target_allocations[j].name # portfolio_name
         IN  target_allocations[first].allocation
    ELSE Zero

Percent(weight, value) == RDiv(RMul(weight, value), Hundred)

\* C15: what calculate_allocation_targets returns gives every portfolio the
\* targetValue targetWeight/100 * total current value, the targetWeight being
\* the configured allocation of the portfolio's name or 0 without one; every
\* position the targetValue targetAllocation/100 * portfolio targetValue;
\* every sector the targetValue that is the sum of its positions' and the
\* targetWeight sector targetValue / portfolio targetValue * 100, or 0 when
\* the portfolio targetValue is 0.
UnconstrainedTargets ==
    (last_call = "calculate_allocation_targets" /\ raised = NoneValue) =>
        /\ Len(portfolios) = Len(portfolio_map)
        /\ \A p \in Indices(portfolios) :
              LET portfolio == portfolios[p]
              IN  /\ portfolio.name = portfolio_map[p].name
                  /\ portfolio.targetWeight = ConfiguredAllocation(portfolio.name)
                  /\ portfolio.targetValue =
                        Percent(portfolio.targetWeight, total_current_value)
                  /\ \A c \in Indices(portfolio.sectors) :
                        LET sector == portfolio.sectors[c]
                        IN  /\ \A i \in Indices(sector.positions) :
                                  /\ sector.positions[i].has_targetValue
                                  /\ sector.positions[i].targetValue =
                                        Percent(sector.positions[i].targetAllocation,
                                                portfolio.targetValue)
                            /\ sector.targetValue =
                                  RSum([i \in Indices(sector.positions) |->
                                          sector.positions[i].targetValue])
                            /\ sector.targetWeight =
                                  IF portfolio.targetValue = Zero THEN Zero
                                  ELSE RDiv(RMul(sector.targetValue, Hundred),
                                            portfolio.targetValue)

\* C15 witness: a call has returned a portfolio of target value 10,000 with
\* two sectors of holdings and a sector of placeholders, the sectors' weights
\* not all the same.
UnconstrainedTargetsWitness ==
    /\ last_call = "calculate_allocation_targets"
    /\ raised = NoneValue
    /\ portfolios[1].targetValue = R(10000)
    /\ Len(portfolios[1].sectors) = 3
    /\ portfolios[1].sectors[3].isPlaceholder
    /\ portfolios[1].sectors[1].targetWeight # portfolios[1].sectors[2].targetWeight
    /\ RGt(portfolios[1].sectors[3].targetValue, Zero)

\* the builder configuration of a portfolio name, <<>> if it has none
ConfigurationOf(portfolio_name) ==
    IF portfolio_name \in DOMAIN portfolio_builder_data
    THEN portfolio_builder_data[portfolio_name].positions
    ELSE <<>>

\* desiredPositions if set, else minPositions, 0 without a configuration
EffectiveCount(portfolio_name) ==
    IF portfolio_name \notin DOMAIN portfolio_builder_data THEN 0
    ELSE IF "desiredPositions" \in DOMAIN portfolio_builder_data[portfolio_name]
    THEN portfolio_builder_data[portfolio_name].desiredPositions
    ELSE portfolio_builder_data[portfolio_name].minPositions

\* the sum of the weights of the configuration's non-placeholder entries
ExplicitWeightSum(portfolio_name) ==
    RSum([i \in Indices(ConfigurationOf(portfolio_name)) |->
            IF ConfigurationOf(portfolio_name)[i].isPlaceholder THEN Zero
            ELSE ConfigurationOf(portfolio_name)[i].weight])

HasPlaceholderEntry(portfolio_name) ==
    \E i \in Indices(ConfigurationOf(portfolio_name)) :
        ConfigurationOf(portfolio_name)[i].isPlaceholder

\* the weight of the first placeholder entry of the configuration
FirstPlaceholderWeight(portfolio_name) ==
    LET entries == SelectSeq(ConfigurationOf(portfolio_name),
                             LAMBDA q : q.isPlaceholder)
    IN  entries[1].weight

\* the number of positions of the portfolio of portfolio_map
CurrentCount(p) ==
    Len(EveryPosition(portfolio_map[p].sectors, 1))

MissingSectors(portfolio) ==
    SelectSeq(portfolio.sectors, LAMBDA sector : sector.name = "Missing Positions")

\* the 'Missing Positions' sector is there exactly when the portfolio's
\* configuration has a placeholder entry, fewer positions than wanted are
\* held, and the explicit weights sum to less than the limit; it is the last
\* sector and holds wanted minus held placeholder positions, each with the
\* first placeholder's weight, current value 0 and no identifier
MissingPositionsBelow(limit) ==
    (last_call = "calculate_allocation_targets" /\ raised = NoneValue) =>
        \A p \in Indices(portfolios) :
            LET name == portfolios[p].name
                missing == MissingSectors(portfolios[p])
                wanted == EffectiveCount(name)
                held == CurrentCount(p)
            IN  /\ Len(missing) <= 1
                /\ Len(missing) = 1 <=>
                      /\ HasPlaceholderEntry(name)
                      /\ held < wanted
                      /\ RLt(ExplicitWeightSum(name), limit)
                /\ Len(missing) = 1 =>
                      /\ portfolios[p].sectors[Len(portfolios[p].sectors)] = missing[1]
                      /\ missing[1].isPlaceholder
                      /\ Len(missing[1].positions) = wanted - held
                      /\ \A i \in Indices(missing[1].positions) :
                            /\ missing[1].positions[i].isPlaceholder
                            /\ missing[1].positions[i].targetAllocation =
                                  FirstPlaceholderWeight(name)
                            /\ missing[1].positions[i].currentValue = Zero
                            /\ missing[1].positions[i].identifier = NoneValue

\* C16 as stated: calculate_allocation_targets adds the 'Missing Positions'
\* sector exactly when the configuration has a placeholder entry, the current
\* position count is below effectivePositions, and the explicit
\* non-placeholder weights sum to less than 100%; the sector holds
\* effectivePositions minus current count placeholder positions with the
\* placeholder's weight, current value 0 and no identifier.
MissingPositionsBelowHundred == MissingPositionsBelow(Hundred)

\* C16 amended: the same with the third condition being that the explicit
\* non-placeholder weights sum to less than 99.5%, that is, to a number that
\* round() takes to an integer below 100.
MissingPositionsBelowRounding == MissingPositionsBelow(<<199, 2>>)

\* C16 witness: a portfolio whose explicit weights sum to 99.25% and that
\* holds one position of the two desired got a sector with one placeholder.
MissingPositionsWitness ==
    /\ last_call = "calculate_allocation_targets"
    /\ raised = NoneValue
    /\ ExplicitWeightSum(portfolios[1].name) = <<397, 4>>
    /\ CurrentCount(1) = 1
    /\ Len(MissingSectors(portfolios[1])) = 1
    /\ Len(MissingSectors(portfolios[1])[1].positions) = 1

(***************************************************************************)
(* Vocabulary of the claims about calculate_rebalancing.                   *)
(***************************************************************************)
Rebalanced(m) == last_call = "calculate_rebalancing" /\ mode = m

\* the holdings with company id k (at most one in SpecRebalance)
HeldAs(k) == {i \in Indices(portfolio_data) : portfolio_data[i].id = k}

\* the position of id k exists in the holdings and has a price
Priced(k) ==
    \E i \in HeldAs(k) :
        /\ portfolio_data[i].price_eur # NoneNumber
        /\ portfolio_data[i].price_eur # Zero

PriceOf(k) == portfolio_data[CHOOSE i \in HeldAs(k) : TRUE].price_eur
ValueOf(k) == portfolio_data[CHOOSE i \in HeldAs(k) : TRUE].current_value

\* the recommendations made for the company of id k
RecommendationsFor(k) ==
    SelectSeq(recommendations, LAMBDA r : r.company_name = CompanyNames[k])

\* the amount recommended for the company of id k, 0 without a recommendation
AmountFor(k) ==
    RSum([i \in Indices(RecommendationsFor(k)) |->
            RecommendationsFor(k)[i].amount_to_buy])

TotalRecommended ==
    RSum([i \in Indices(recommendations) |-> recommendations[i].amount_to_buy])

PricedEntries == {e \in Indices(target_allocations) : Priced(target_allocations[e][1])}

\* C17: in mode 'proportional' calculate_rebalancing raises nothing and
\* returns one recommendation for each entry of the target map whose position
\* is held and has a price, with amount_to_buy = investment amount * target
\* percent / 100 and shares_to_buy = amount_to_buy / price, and none for the
\* other entries.
ProportionalDeployment ==
    Rebalanced("proportional") =>
        /\ raised = NoneValue
        /\ Len(recommendations) = Cardinality(PricedEntries)
        /\ \A e \in Indices(target_allocations) :
              LET k == target_allocations[e][1]
                  pct == target_allocations[e][2]
                  amount == RDiv(RMul(investment_amount, pct), Hundred)
              IN  IF Priced(k)
                  THEN /\ Len(RecommendationsFor(k)) = 1
                       /\ RecommendationsFor(k)[1].amount_to_buy = amount
                       /\ RecommendationsFor(k)[1].shares_to_buy =
                             RDiv(amount, PriceOf(k))
                  ELSE RecommendationsFor(k) = <<>>

\* C17 witness: of two entries one names a held, priced position and gets
\* half of the investment amount, the other one is left out.
ProportionalDeploymentWitness ==
    /\ Rebalanced("proportional")
    /\ Len(target_allocations) = 2
    /\ Cardinality(PricedEntries) = 1
    /\ Len(recommendations) = 1
    /\ recommendations[1].amount_to_buy = R(1000)
    /\ recommendations[1].shares_to_buy = R(20)

\* newTotal: the holdings' current values plus the investment amount
NewTotal ==
    RAdd(RSum([i \in Indices(portfolio_data) |-> portfolio_data[i].current_value]),
         investment_amount)

\* max(0, newTotal * pct / 100 - current value of k)
Gap(k, pct) ==
    LET g == RSub(RDiv(RMul(NewTotal, pct), Hundred), ValueOf(k))
    IN  IF RGt(g, Zero) THEN g ELSE Zero

\* C18: in mode 'target_weights' every priced position named in the target
\* map gets amount_to_buy = max(0, newTotal * target percent / 100 - its
\* current value) and shares_to_buy = that amount / price; a position at or
\* above its target gets nothing to buy (no recommendation), and so does an
\* entry without a priced position.
TargetWeightsDeployment ==
    Rebalanced("target_weights") =>
        /\ raised = NoneValue
        /\ \A e \in Indices(target_allocations) :
              LET k == target_allocations[e][1]
                  pct == target_allocations[e][2]
              IN  IF Priced(k)
                  THEN /\ AmountFor(k) = Gap(k, pct)
                       /\ IF Gap(k, pct) = Zero
                          THEN RecommendationsFor(k) = <<>>
                          ELSE /\ Len(RecommendationsFor(k)) = 1
                               /\ RecommendationsFor(k)[1].shares_to_buy =
                                     RDiv(Gap(k, pct), PriceOf(k))
                  ELSE RecommendationsFor(k) = <<>>
        /\ \A i \in Indices(recommendations) :
              \E e \in PricedEntries :
                  recommendations[i].company_name =
                      CompanyNames[target_allocations[e][1]]

\* C18 witness: a position worth 8,000 with target 50% of a new total of
\* 18,000 gets 1,000, and a position worth 8,000 with target 0% gets nothing.
TargetWeightsDeploymentWitness ==
    /\ Rebalanced("target_weights")
    /\ NewTotal = R(18000)
    /\ \E e \in PricedEntries :
          /\ target_allocations[e][2] = R(50)
          /\ ValueOf(target_allocations[e][1]) = R(8000)
          /\ AmountFor(target_allocations[e][1]) = R(1000)
    /\ \E e \in PricedEntries :
          /\ target_allocations[e][2] = R(0)
          /\ ValueOf(target_allocations[e][1]) = R(8000)
          /\ RecommendationsFor(target_allocations[e][1]) = <<>>

\* Scenario D: X worth 8,000 with target 0%, Y worth 0 at price 50 with
\* target 100%, 2,000 to invest
ScenarioD ==
    /\ Len(portfolio_data) = 2
    /\ portfolio_data[1].current_value = R(8000)
    /\ portfolio_data[2].current_value = R(0)
    /\ portfolio_data[2].price_eur = R(50)
    /\ target_allocations = <<<<1, R(0)>>, <<2, R(100)>>>>
    /\ investment_amount = R(2000)

\* C19: in mode 'target_weights' the amounts recommended never total more
\* than the investment amount; in Scenario D, X gets amount to buy 0 and Y
\* gets amount_to_buy 2,000 and shares_to_buy 40.
CashBudget ==
    Rebalanced("target_weights") =>
        /\ RLeq(TotalRecommended, investment_amount)
        /\ ScenarioD =>
              /\ AmountFor(1) = Zero
              /\ Len(RecommendationsFor(2)) = 1
              /\ RecommendationsFor(2)[1].amount_to_buy = R(2000)
              /\ RecommendationsFor(2)[1].shares_to_buy = R(40)

\* the holdings with a positive price
PositivelyPriced ==
    {i \in Indices(portfolio_data) :
        /\ portfolio_data[i].price_eur # NoneNumber
        /\ RGt(portfolio_data[i].price_eur, Zero)}

\* C20: in mode 'equal_weight' every holding with a positive price gets
\* exactly investment amount / (number of such holdings), whatever its
\* current value, a holding without a positive price gets nothing, the list
\* is empty when no holding has a positive price, and otherwise the amounts
\* sum to the investment amount.
EqualWeightDeployment ==
    Rebalanced("equal_weight") =>
        /\ raised = NoneValue
        /\ Len(recommendations) = Cardinality(PositivelyPriced)
        /\ PositivelyPriced = {} => recommendations = <<>>
        /\ PositivelyPriced # {} => TotalRecommended = investment_amount
        /\ \A i \in Indices(portfolio_data) :
              LET k == portfolio_data[i].id
                  share == RDiv(investment_amount, R(Cardinality(PositivelyPriced)))
              IN  IF i \in PositivelyPriced
                  THEN /\ Len(RecommendationsFor(k)) = 1
                       /\ RecommendationsFor(k)[1].amount_to_buy = share
                       /\ RecommendationsFor(k)[1].shares_to_buy =
                             RDiv(share, portfolio_data[i].price_eur)
                  ELSE RecommendationsFor(k) = <<>>

\* C20 witness (Scenario E): three holdings with positive prices and
\* different current values, 3,000 to invest, each gets 1,000.
EqualWeightDeploymentWitness ==
    /\ Rebalanced("equal_weight")
    /\ Len(portfolio_data) = 3
    /\ Cardinality(PositivelyPriced) = 3
    /\ portfolio_data[1].current_value # portfolio_data[2].current_value
    /\ investment_amount = R(3000)
    /\ \A i \in Indices(recommendations) :
          recommendations[i].amount_to_buy = R(1000)
    /\ Len(recommendations) = 3

\* the percentages of validated_allocations differ from 100 by more than 0.01
OutsideTolerance ==
    LET total == RSum([i \in Indices(validated_allocations) |->
                         validated_allocations[i][2]])
        off == RSub(total, Hundred)
    IN  \/ RGt(off, <<1, 100>>)
        \/ RGt(<<-1, 100>>, off)

\* C21: validate_allocations reports failure exactly when the percentages
\* sum to something that differs from 100 by more than 0.01, and (True, None)
\* for every map within the tolerance; {1: 60, 2: 40} is accepted by a
\* service with default rules.
AllocationSumValidation ==
    validation # <<>> =>
        /\ validation[1] = FALSE <=> OutsideTolerance
        /\ ~OutsideTolerance => validation = <<TRUE, NoneValue>>
        /\ (/\ validated_allocations = <<<<1, R(60)>>, <<2, R(40)>>>>
            /\ max_stock_percentage = DefaultRuleMaxStock)
              => validation = <<TRUE, NoneValue>>

\* C22: calculate_allocation_targets and
\* calculate_allocation_targets_with_type_constraints are pure: a call leaves
\* the portfolio_map it was given (every portfolio, sector and position
\* record in it) unchanged.
Purity ==
    [][calls' = calls + 1 => portfolio_map' = portfolio_map]_vars

\* the sum of the currentValue of the records of a list
CurrentValueSum(records) ==
    RSum([i \in Indices(records) |-> records[i].currentValue])

\* C23: in the tree returned by get_portfolio_positions every sector's
\* currentValue is the sum of the currentValue of its positions and every
\* portfolio's currentValue is the sum of its sectors' currentValue.
BottomUpCurrentValue ==
    TreeBuilt =>
        \A p \in Indices(portfolio_map) :
            /\ portfolio_map[p].currentValue =
                  CurrentValueSum(portfolio_map[p].sectors)
            /\ \A c \in Indices(portfolio_map[p].sectors) :
                  portfolio_map[p].sectors[c].currentValue =
                      CurrentValueSum(portfolio_map[p].sectors[c].positions)

\* C23 witness: a portfolio of two sectors worth 1,000 each is worth 2,000.
BottomUpCurrentValueWitness ==
    /\ last_call = "get_portfolio_positions"
    /\ \E p \in Indices(portfolio_map) :
          /\ Len(portfolio_map[p].sectors) = 2
          /\ portfolio_map[p].currentValue = R(2000)
          /\ \A c \in Indices(portfolio_map[p].sectors) :
                portfolio_map[p].sectors[c].currentValue = R(1000)

\* the named entries of the configuration
NamedEntries == SelectSeq(target_allocations, LAMBDA c : c.name # NoneValue)

\* the entry declares at least one placeholder and no real position
DeclaresOnlyPlaceholders(c) ==
    /\ "positions" \in DOMAIN c
    /\ c.positions # <<>>
    /\ \A i \in Indices(c.positions) : c.positions[i].isPlaceholder

\* the weight of the entry's first placeholder, NoneNumber without the key
DeclaredPlaceholderWeight(c) ==
    IF "weight" \in DOMAIN c.positions[1] THEN c.positions[1].weight
    ELSE NoneNumber

\* the portfolio of that name is marked as using equal distribution
MarkedEqual(name) == "use_placeholder_weight" \in DOMAIN portfolio_builder_data[name]

\* a configured portfolio is marked as using equal distribution, with its
\* first placeholder's weight stored as its per-position default, exactly when
\* it declares only placeholders and that weight is one of those in which the
\* marking is made
EqualDistributionMarkingFor(marking_weight(_)) ==
    TreeBuilt =>
        \A i \in Indices(NamedEntries) :
            LET c == NamedEntries[i]
            IN  /\ c.name \in DOMAIN portfolio_builder_data
                /\ MarkedEqual(c.name) <=>
                      /\ DeclaresOnlyPlaceholders(c)
                      /\ marking_weight(DeclaredPlaceholderWeight(c))
                /\ MarkedEqual(c.name) =>
                      /\ portfolio_builder_data[c.name].use_placeholder_weight
                      /\ portfolio_builder_data[c.name].placeholder_weight =
                            DeclaredPlaceholderWeight(c)

AnyWeight(w) == TRUE
GivenAndNotZero(w) == w # NoneNumber /\ w # Zero

\* C24 as stated: every configured portfolio that declares only placeholder
\* entries is marked as using equal distribution with the placeholder's weight
\* stored as its per-position default, whatever that weight is.
EqualDistributionMarking == EqualDistributionMarkingFor(AnyWeight)

\* C24 amended: the marking is made, and the weight stored, exactly for the
\* portfolios that declare only placeholders and whose first placeholder has
\* a weight that is neither null nor 0.
EqualDistributionMarkingTruthy == EqualDistributionMarkingFor(GivenAndNotZero)

\* C24 witness: a portfolio declared with one placeholder of weight 10 is
\* marked and has 10 as its per-position default.
EqualDistributionMarkingWitness ==
    /\ TreeBuilt
    /\ \E i \in Indices(NamedEntries) :
          /\ DeclaresOnlyPlaceholders(NamedEntries[i])
          /\ MarkedEqual(NamedEntries[i].name)
          /\ portfolio_builder_data[NamedEntries[i].name].placeholder_weight = R(10)

ConstrainedCall ==
    /\ last_call = "calculate_allocation_targets_with_type_constraints"
    /\ raised = NoneValue

\* the real sectors of the portfolios of the result that have a target value
\* above 0 and at least one valid position, as pairs <<portfolio, sector>>
ResolvedSectors ==
    {ps \in UNION {{<<p, c>> : c \in Indices(portfolios[p].sectors)} :
                      p \in Indices(portfolios)} :
        /\ RGt(portfolios[ps[1]].targetValue, Zero)
        /\ ~portfolios[ps[1]].sectors[ps[2]].isPlaceholder
        /\ \E i \in Indices(EveryPosition(portfolios[ps[1]].sectors, 1)) :
              ~IsSkipped(EveryPosition(portfolios[ps[1]].sectors, 1)[i])}

\* every resolved sector's targetValue is the sum of value(position, portfolio
\* target value) over its positions and its targetWeight that sum / portfolio
\* target value * 100
SectorSums(value(_, _)) ==
    ConstrainedCall =>
        \A ps \in ResolvedSectors :
            LET ptv == portfolios[ps[1]].targetValue
                sector == portfolios[ps[1]].sectors[ps[2]]
                total == RSum([i \in Indices(sector.positions) |->
                                 value(sector.positions[i], ptv)])
            IN  /\ sector.targetValue = total
                /\ sector.targetWeight = RDiv(RMul(total, Hundred), ptv)

\* pos.get('constrained_target_value', 0)
ConstrainedValueOrZero(pos, ptv) ==
    IF CarriesMetadata(pos) THEN pos.constrained_target_value ELSE Zero

\* constrained_target_value where the position has one, else the
\* unconstrained target targetAllocation / 100 * portfolio target value
ConstrainedOrUnconstrainedValue(pos, ptv) ==
    IF CarriesMetadata(pos) THEN pos.constrained_target_value
    ELSE RMul(RDiv(pos.targetAllocation, Hundred), ptv)

RemainingCapacity(ps) ==
    RSub(portfolio_target_value,
         RSum([i \in Indices(ps) |->
                 IF ps[i].is_capped THEN ps[i].constrained_target_value ELSE Zero]))

\* U: the original values of the still-uncapped positions, summed
OriginalUncappedSum(ps) ==
    RSum([i \in Indices(ps) |->
            IF ps[i].is_capped THEN Zero ELSE ps[i].targetValue])

StillUncapped(ps) == {i \in Indices(ps) : ~ps[i].is_capped}

\* positions ps are as a redistribution leaves them
RedistributedByOriginalWeight(ps) ==
    RGt(RemainingCapacity(ps), Zero) =>
        \A i \in StillUncapped(ps) :
            /\ ps[i].unconstrained_target_value = ps[i].targetValue
            /\ ps[i].constrained_target_value =
                  IF OriginalUncappedSum(ps) = Zero
                  THEN RDiv(RemainingCapacity(ps), R(Cardinality(StillUncapped(ps))))
                  ELSE RDiv(RMul(RemainingCapacity(ps), ps[i].targetValue),
                            OriginalUncappedSum(ps))

\* C26: in every pass of _apply_type_constraints_recursive in which some
\* position was capped and the remaining capacity A is > 0, each
\* still-uncapped position i is set to A * u_i / U, u_i its original target
\* value and U the sum of u over the still-uncapped positions, and to
\* A / (number of uncapped positions) when U = 0.
RedistributionByOriginalWeight ==
    [][(pc = "running" /\ iteration' = iteration + 1) =>
          RedistributedByOriginalWeight(positions')]_vars

\* C26 witness: after a second capping pass the one position left uncapped
\* holds all the remaining capacity, which is not what it held before.
RedistributionByOriginalWeightWitness ==
    /\ pc = "running"
    /\ iteration = 2
    /\ Len(positions) = 3
    /\ Cardinality(StillUncapped(positions)) = 1
    /\ RGt(RemainingCapacity(positions), Zero)
    /\ \A i \in StillUncapped(positions) :
          /\ positions[i].constrained_target_value = RemainingCapacity(positions)
          /\ positions[i].constrained_target_value # positions[i].targetValue

\* the equal split: after a pass a position of original value 0 holds the
\* remaining capacity
EqualSplitReached ==
    /\ pc = "running"
    /\ iteration >= 1
    /\ RGt(RemainingCapacity(positions), Zero)
    /\ StillUncapped(positions) # {}
    /\ OriginalUncappedSum(positions) = Zero

\* C29: whenever _apply_type_constraints_recursive returns, without having hit
\* the ceiling, with at least one capped position, at least one uncapped
\* position and capped values summing to less than the portfolio target
\* value, the constrained values of all positions sum to the portfolio target
\* value, whatever the original values summed to.
FullAllocationAfterCapping ==
    (/\ Returned
     /\ ~HitCeiling
     /\ SomeCapped
     /\ StillUncapped(positions) # {}
     /\ RGt(RemainingCapacity(positions), Zero)) =>
        TotalConstrained = portfolio_target_value

\* C29 witness: a call whose positions asked for more than the portfolio
\* target value returned with a position capped by its class rule and an
\* uncapped one, the constrained values summing to the portfolio target value.
FullAllocationAfterCappingWitness ==
    /\ Returned /\ ~HitCeiling /\ run = 1
    /\ RGt(TotalUnconstrained, portfolio_target_value)
    /\ \E i \in Indices(positions) :
          /\ IsCapped(positions[i])
          /\ positions[i].applicable_rule \in ClassRules
    /\ StillUncapped(positions) # {}
    /\ RGt(RemainingCapacity(positions), Zero)
    /\ TotalConstrained = portfolio_target_value

\* portfolio_map as it was built, before any call wrote into its positions
FreshlyBuilt(pmap) ==
    [p \in Indices(pmap) |->
        [pmap[p] EXCEPT
            !.sectors = [c \in Indices(pmap[p].sectors) |->
                [pmap[p].sectors[c] EXCEPT
                    !.positions = [i \in Indices(pmap[p].sectors[c].positions) |->
                                      AsBuilt(pmap[p].sectors[c].positions[i])]]]]]

\* the target value and the capping metadata of a position of a result; a
\* position without the metadata keys shows as <<>>
TargetAndMetadata(pos) ==
    <<pos.name, pos.targetValue,
      IF CarriesMetadata(pos)
      THEN <<pos.is_capped, pos.constrained_target_value, pos.applicable_rule>>
      ELSE <<>> >>

\* per portfolio: its target value, and per sector the sector's target value
\* and the target values and capping metadata of its positions
TargetsAndMetadata(result) ==
    [p \in Indices(result) |->
        <<result[p].targetValue,
          [c \in Indices(result[p].sectors) |->
              <<result[p].sectors[c].targetValue,
                [i \in Indices(result[p].sectors[c].positions) |->
                    TargetAndMetadata(result[p].sectors[c].positions[i])]>>]>>]

\* C28: the result of calculate_allocation_targets_with_type_constraints on a
\* portfolio_map that was passed to an earlier call carries the same target
\* values and capping metadata as its result on a freshly built equal
\* portfolio_map.
IndependentOfEarlierCalls ==
    ConstrainedCall =>
        TargetsAndMetadata(portfolios) =
            TargetsAndMetadata(CalculateAllocationTargetsWithTypeConstraints(
                FreshlyBuilt(portfolio_map), portfolio_builder_data,
                target_allocations, total_current_value, rules))

\* the portfolios with their unconstrained targets, as the call computes them
\* before the capping iteration
BeforeCapping ==
    CalculateAllocationTargets(FreshlyBuilt(portfolio_map), portfolio_builder_data,
                               target_allocations, total_current_value)

\* what the capping iteration returns for the valid positions of portfolio p
CappingResult(p) ==
    LET valid == ValidPositions(BeforeCapping[p].sectors)
    IN  ApplyTypeConstraints(
            [k \in Indices(valid) |-> PositionAt(BeforeCapping[p].sectors, valid[k])],
            BeforeCapping[p].targetValue, ParseRules(rules), 0,
            DefaultMaxIterations).positions

\* C30: in the output of calculate_allocation_targets_with_type_constraints
\* every valid position's targetValue, is_capped and applicable_rule are the
\* ones the capping iteration computed for that very position, also when two
\* positions of the portfolio have the same name.
OwnResultPerPosition ==
    ConstrainedCall =>
        \A p \in Indices(portfolios) :
            BeforeCapping[p].targetValue # Zero =>
                LET valid == ValidPositions(BeforeCapping[p].sectors)
                IN  \A k \in Indices(valid) :
                        LET pos == PositionAt(portfolios[p].sectors, valid[k])
                        IN  /\ pos.targetValue =
                                  CappingResult(p)[k].constrained_target_value
                            /\ pos.is_capped = CappingResult(p)[k].is_capped
                            /\ pos.applicable_rule =
                                  CappingResult(p)[k].applicable_rule

\* the same for portfolios whose valid positions have different names
OwnResultWithDistinctNames ==
    ConstrainedCall =>
        \A p \in Indices(portfolios) :
            LET valid == ValidPositions(BeforeCapping[p].sectors)
            IN  (/\ BeforeCapping[p].targetValue # Zero
                 /\ \A j, k \in Indices(valid) :
                       j # k => PositionAt(portfolios[p].sectors, valid[j]).name #
                                PositionAt(portfolios[p].sectors, valid[k]).name) =>
                    \A k \in Indices(valid) :
                        LET pos == PositionAt(portfolios[p].sectors, valid[k])
                        IN  /\ pos.targetValue =
                                  CappingResult(p)[k].constrained_target_value
                            /\ pos.is_capped = CappingResult(p)[k].is_capped
                            /\ pos.applicable_rule =
                                  CappingResult(p)[k].applicable_rule

\* C27 (cache freshness): a request for the simulator data that starts after
\* a write to the account's portfolio data has completed never returns a
\* result computed from the data before that write, also when another
\* request was in flight while the write committed and invalidated
CacheFreshness ==
    \A r \in DOMAIN readers :
        readers[r].pc = "done" => readers[r].result >= readers[r].floor

====
